---- MODULE Spec2Model ----
(***************************************************************************)
(* HinganAI backend (src/backend/app.py): the model registry filled by     *)
(* load_models at import, the four prediction handlers with their          *)
(* best-effort persistence loop, the history endpoint, the pure advisory   *)
(* helpers, and the inference calls of concurrent disease requests on the  *)
(* shared interpreter and their files in the shared upload folder; the     *)
(* yield and fertilizer handlers of src/backend/routes/additional_routes.py.*)
(*                                                                         *)
(* Numbers: a confidence is a probability in tenths (8 stands for 0.8).    *)
(* JSON values are abstracted to whether float()/int() accepts them; a     *)
(* row of the store is abstracted to its table and its user_id.            *)
(***************************************************************************)
EXTENDS FiniteSets, Integers, Sequences, TLC

VARIABLES
    models,     \* keys of the global `models` dict (app.py:69)
    supabase,   \* TRUE when the Supabase client was created (app.py:49-54)
    pc,         \* position of the request being served
    req,        \* the request being served
    result,     \* the handler's locals after model invocation (label, confidence)
    attempt,    \* loop variable of `for attempt in range(max_retries)`
    outcomes,   \* outcome of each insert attempt of this request, in order
    sleeps,     \* number of time.sleep(1) calls of this request
    written,    \* rows this request wrote to the store: <<table, user_id>>
    uploads,    \* files in app.config['UPLOAD_FOLDER']
    invoked,    \* TRUE once this request called a transformer or a model
    output,     \* what the model returned for this request
    exc,        \* str(e) of the exception being handled
    resp,       \* the response returned for this request
    arg,        \* input of the pure function under check
    ret,        \* its result
    store,      \* rows of the Supabase tables, oldest first: <<table, user_id>>
    threads,    \* the locals of each request thread inside detect_disease's inference
    interpreter, \* tensors of the shared models['disease_interpreter']
    crop_model, \* the fitted classifier behind models['crop_model']
    answered    \* crop requests answered so far: <<feature_list, response>>

vars == <<models, supabase, pc, req, result, attempt, outcomes, sleeps,
          written, uploads, invoked, output, exc, resp, arg, ret, store,
          threads, interpreter, crop_model, answered>>

(***************************************************************************)
(* Bounds of the model                                                     *)
(***************************************************************************)
\* at most this many required fields are left out of one request body
MaxMissing == 2
\* the disease model's output vector has indices 0..MaxDiseaseClass
MaxDiseaseClass == 3
\* number of disease requests in flight at once
MaxThreads == 2
\* number of crop requests served one after the other
MaxRequests == 2
\* prediction requests are served while the store holds fewer rows than this
MaxRows == 1

None == "None"
NoOutput == [none |-> TRUE]
NotCalled == [called |-> FALSE]
Returned(v) == [called |-> TRUE, value |-> v]

\* the tables the handlers name, and the store before any row is written
Tables ==
    {"crop_recommendations", "disease_detections", "yield_predictions",
     "fertilizer_recommendations", "crop_yield_predictions"}
EmptyStore == [t \in Tables |-> <<>>]

\* the interpreter after allocate_tensors(): nothing set, nothing computed
FreshInterpreter == [input |-> NoOutput, output |-> NoOutput]

Max(S) == CHOOSE x \in S : \A y \in S : x >= y
Min(S) == CHOOSE x \in S : \A y \in S : x <= y

(***************************************************************************)
(* Model registry: MODEL_PATHS and load_models                             *)
(***************************************************************************)
MODEL_PATHS ==
    {"crop_recommendation", "crop_scaler", "crop_minmax", "disease_detection",
     "crop_yield", "crop_yield_preprocessor", "fertilizer", "fertilizer_info"}

\* What load_models can find at a path: no file, a file that loads, a file
\* whose load raises; the TFLite file may also construct an interpreter
\* whose allocate_tensors() raises.
FileStatus(f) ==
    IF f = "disease_detection"
    THEN {"absent", "good", "bad", "unallocatable"}
    ELSE {"absent", "good", "bad"}

Disks == {d \in [MODEL_PATHS -> {"absent", "good", "bad", "unallocatable"}] :
            \A f \in MODEL_PATHS : d[f] \in FileStatus(f)}

\* os.path.exists(MODEL_PATHS[f])
Exists(d, f) == d[f] # "absent"
\* pickle.load(open(MODEL_PATHS[f], 'rb')) returns (open raises on a missing file)
Loads(d, f) == d[f] = "good"

\* The state of the try block of load_models: the registry so far and whether
\* an exception has already sent control to the except clause.
LoadStart == [m |-> {}, raised |-> FALSE]
Raise(s, keys) == [m |-> s.m \cup keys, raised |-> TRUE]
Store(s, keys) == [m |-> s.m \cup keys, raised |-> FALSE]

LoadCrop(d, s) ==
    IF s.raised \/ ~Exists(d, "crop_recommendation") THEN s
    ELSE IF ~Loads(d, "crop_recommendation") THEN Raise(s, {})
    ELSE IF ~Loads(d, "crop_scaler") THEN Raise(s, {"crop_model"})
    ELSE IF ~Loads(d, "crop_minmax") THEN Raise(s, {"crop_model", "crop_scaler"})
    ELSE Store(s, {"crop_model", "crop_scaler", "crop_minmax"})

LoadDisease(d, s) ==
    IF s.raised \/ ~Exists(d, "disease_detection") THEN s
    ELSE IF d["disease_detection"] = "bad" THEN Raise(s, {})
    ELSE IF d["disease_detection"] = "unallocatable"
         THEN Raise(s, {"disease_interpreter"})
    ELSE Store(s, {"disease_interpreter", "disease_input_details",
                   "disease_output_details"})

LoadYield(d, s) ==
    IF s.raised \/ ~Exists(d, "crop_yield") THEN s
    ELSE IF ~Loads(d, "crop_yield") THEN Raise(s, {})
    ELSE IF ~Loads(d, "crop_yield_preprocessor") THEN Raise(s, {"yield_model"})
    ELSE Store(s, {"yield_model", "yield_preprocessor"})

LoadFertilizer(d, s) ==
    IF s.raised \/ ~Exists(d, "fertilizer") THEN s
    ELSE IF ~Loads(d, "fertilizer") THEN Raise(s, {})
    ELSE IF ~Exists(d, "fertilizer_info") THEN Store(s, {"fertilizer_model"})
    ELSE IF ~Loads(d, "fertilizer_info") THEN Raise(s, {"fertilizer_model"})
    ELSE Store(s, {"fertilizer_model", "fertilizer_info"})

\* load_models(): one try block around the four sections; the except clause
\* prints and returns, so the function returns normally with `escaped` FALSE.
LoadModels(d) ==
    LET s == LoadFertilizer(d, LoadYield(d, LoadDisease(d, LoadCrop(d, LoadStart))))
    IN  [models |-> s.m, caught |-> s.raised, escaped |-> FALSE]

\* Every registry the import-time call load_models() (app.py:110) can leave.
LoadableRegistries == {LoadModels(d).models : d \in Disks}

(***************************************************************************)
(* Specification of load_models as a function of the artifact directory    *)
(***************************************************************************)
Idle ==
    /\ pc = "idle"
    /\ req = [endpoint |-> None]
    /\ result = [label |-> None, confidence |-> 0, value |-> 0]
    /\ attempt = 0
    /\ outcomes = <<>>
    /\ sleeps = 0
    /\ written = <<>>
    /\ invoked = FALSE
    /\ output = NoOutput
    /\ exc = None
    /\ resp = [status |-> 0]

InitLoad ==
    /\ arg \in Disks
    /\ ret = NotCalled
    /\ models = {}
    /\ supabase = FALSE
    /\ uploads = {}
    /\ store = EmptyStore
    /\ threads = <<>>
    /\ interpreter = FreshInterpreter
    /\ crop_model = <<>>
    /\ answered = <<>>
    /\ Idle

CallLoadModels ==
    /\ ret = NotCalled
    /\ arg \in Disks
    /\ ret' = Returned(LoadModels(arg))
    /\ models' = LoadModels(arg).models
    /\ UNCHANGED <<supabase, pc, req, result, attempt, outcomes, sleeps,
                   written, uploads, invoked, output, exc, resp, arg, store,
                   threads, interpreter, crop_model, answered>>

NextLoad == CallLoadModels

SpecLoad == InitLoad /\ [][NextLoad]_vars

(***************************************************************************)
(* Constants of app.py                                                     *)
(***************************************************************************)
CropNames ==
    <<"Rice", "Maize", "Jute", "Cotton", "Coconut", "Papaya", "Orange",
      "Apple", "Muskmelon", "Watermelon", "Grapes", "Mango", "Banana",
      "Pomegranate", "Lentil", "Blackgram", "Mungbean", "Mothbeans",
      "Pigeonpeas", "Kidneybeans", "Chickpea", "Coffee">>

\* CROP_DICT: keys 1..22
CROP_DICT == [i \in 1..Len(CropNames) |-> CropNames[i]]

\* DISEASE_LABELS: keys 0..2
DISEASE_LABELS == [i \in 0..2 |-> <<"Healthy", "Powdery", "Rust">>[i + 1]]

\* max_retries of every persistence loop
max_retries == 3

NotAvailable ==
    [crop |-> "Crop recommendation model not available",
     disease |-> "Disease detection model not available",
     yield |-> "Crop yield model not available",
     fertilizer |-> "Fertilizer model not available"]

\* the table each handler of app.py inserts into
InsertTable ==
    [crop |-> "crop_recommendations", disease |-> "disease_detections",
     yield |-> "yield_predictions", fertilizer |-> "fertilizer_recommendations"]

\* supabase.table(t).insert(record).execute() returned
Insert(st, t, user_id) == [st EXCEPT ![t] = Append(@, <<t, user_id>>)]

\* the key of the history response and the table read for it, in the order
\* of the four queries
HistoryCategories ==
    <<"crop_recommendations", "disease_detections",
      "fertilizer_recommendations", "crop_yield_predictions">>

\* .limit(10)
HistoryLimit == 10

\* required_fields of the three JSON handlers, in declared order
required_fields ==
    [crop |-> <<"nitrogen", "phosphorus", "potassium", "temperature",
                "humidity", "ph", "rainfall">>,
     yield |-> <<"Year", "average_rain_fall_mm_per_year", "pesticides_tonnes",
                 "avg_temp", "Area", "Item">>,
     fertilizer |-> <<"Temparature", "Humidity ", "Moisture", "Soil Type",
                      "Crop Type", "Nitrogen", "Potassium", "Phosphorous">>]

\* the fields each handler passes to float() or int(), in evaluation order
cast_fields ==
    [crop |-> <<"nitrogen", "phosphorus", "potassium", "temperature",
                "humidity", "ph", "rainfall">>,
     yield |-> <<"Year", "average_rain_fall_mm_per_year", "pesticides_tonnes",
                 "avg_temp">>,
     fertilizer |-> <<"Temparature", "Humidity ", "Moisture", "Nitrogen",
                      "Potassium", "Phosphorous">>]

JsonEndpoints == {"crop", "yield", "fertilizer"}
Range(q) == {q[i] : i \in 1..Len(q)}

(***************************************************************************)
(* Responses                                                               *)
(***************************************************************************)
\* jsonify(body), status
Response(status, body) == [status |-> status, body |-> body]
Error(status, text) == Response(status, [success |-> FALSE, error |-> text])

\* str(e) of the exceptions the handlers can meet
KeyErrorText(key) == "'" \o key \o "'"
FloatErrorText == "could not convert string to float: 'abc'"
IntErrorText == "invalid literal for int() with base 10: 'abc'"

(***************************************************************************)
(* Requests                                                                *)
(***************************************************************************)
\* data.get('user_id'): absent, the empty string, or an identifier
UserIds == {None, "", "u1"}

\* A JSON object body: the keys it has, and the key (if any) whose value is a
\* string float()/int() rejects.
JsonBodies(ep) ==
    LET R == Range(required_fields[ep])
        C == Range(cast_fields[ep])
    IN  UNION {
          { [endpoint |-> ep, present |-> P, garbled |-> G, user_id |-> u] :
              G \in {{}} \cup {{f} : f \in P \cap C}, u \in UserIds }
          : P \in {Q \in SUBSET R : Cardinality(R \ Q) <= MaxMissing} }

\* A multipart body of the disease endpoint
DiseaseBodies ==
    [endpoint : {"disease"}, has_file : BOOLEAN, filename : {"", "leaf.jpg"},
     user_id : UserIds]

\* Confidence values, in tenths
Confidences == 0..10

\* What the opaque models return
CropOutputs == [index : 0..(Len(CropNames) + 1), confidence : {7, 10}]
DiseaseOutputs == [index : 0..MaxDiseaseClass, confidence : Confidences]
YieldOutputs == [value : {36613}]
FertilizerOutputs ==
    [label : {"Urea", "DAP", "14-35-14", "28-28", "17-17-17", "20-20",
              "10-26-26", "Compost"},
     confidence : {7, 10}]

\* The library calls of each handler that can raise for a request that passed
\* validation: file.save before or after it created the file, load_img,
\* a transformer, the model
Faults ==
    [crop |-> {"transform", "predict"},
     disease |-> {"save", "save_partial", "load_img", "invoke"},
     yield |-> {"transform", "predict"},
     fertilizer |-> {"predict"}]

\* str(e) of the exception a failing library call raises
FaultText ==
    [save |-> "[Errno 2] No such file or directory",
     save_partial |-> "[Errno 28] No space left on device",
     load_img |-> "cannot identify image file",
     transform |-> "X has 6 features, but the transformer is expecting 7",
     predict |-> "model prediction failed",
     invoke |-> "interpreter invoke failed"]

\* What the libraries do for one request: one call raises, or every call
\* returns and the model gives an output; a request that fails validation
\* calls no library
NoRun == [fault |-> "none"]
Runs(ep, validated, outputs) ==
    IF validated
    THEN {[fault |-> "none"] @@ o : o \in outputs} \cup [fault : Faults[ep]]
    ELSE {NoRun}

(***************************************************************************)
(* Steps shared by the handlers                                            *)
(***************************************************************************)
\* mutant: the loop keeps going and reports the last absent field
LastMissing(ep, data) ==
    LET q == required_fields[ep]
        absent == {i \in 1..Len(q) : q[i] \notin data.present}
    IN  IF absent = {} THEN None ELSE q[Max(absent)]

\* for field in required_fields: if field not in data: return ..., 400
FirstMissing(ep, data) ==
    LET q == required_fields[ep]
        absent == {i \in 1..Len(q) : q[i] \notin data.present}
    IN  IF absent = {} THEN None ELSE q[Min(absent)]

\* the first float()/int() call, in evaluation order, that raises
FirstGarbled(ep, data) ==
    LET q == cast_fields[ep]
        bad == {i \in 1..Len(q) : q[i] \in data.garbled}
    IN  IF bad = {} THEN None ELSE q[Min(bad)]

\* mutant: `if supabase:`
PersistWithoutUser(sb, user_id) == sb

\* `if supabase and user_id:`
ShouldPersist(sb, user_id) == sb /\ user_id \notin {None, ""}

NoResult == [label |-> None, confidence |-> 0, value |-> 0]

\* How the code before the persistence block ends: a return statement, an
\* exception for the handler's except clause, or a prediction to persist.
\* `inv`: a transformer or model was called; `o`: what the model returned.
\* `saved`: file.save created the upload at file_path.
Return(r, inv, o) ==
    [kind |-> "return", resp |-> r, exc |-> None, result |-> NoResult,
     invoked |-> inv, out |-> o, saved |-> FALSE]
Raised(text, inv, o) ==
    [kind |-> "raise", resp |-> [status |-> 0], exc |-> text,
     result |-> NoResult, invoked |-> inv, out |-> o, saved |-> FALSE]
Predicted(res, o) ==
    [kind |-> "predicted", resp |-> [status |-> 0], exc |-> None,
     result |-> res, invoked |-> TRUE, out |-> o, saved |-> FALSE]

\* the upload was saved and control is inside detect_disease's try/finally
Saved(step) == [step EXCEPT !.saved = TRUE]
\* an exception raised inside that try: the finally clause runs first
RaisedInTry(text, inv, o) ==
    [Saved(Raised(text, inv, o)) EXCEPT !.kind = "raise_in_try"]

(***************************************************************************)
(* Advisory helpers                                                        *)
(***************************************************************************)
\* confidence > 0.8 and confidence > 0.6, in tenths
HighConfidence == 8
MediumConfidence == 6

\* mutant: the comparisons are not strict
severity_with_inclusive_thresholds(confidence, disease) ==
    IF disease = "Healthy" THEN "Good"
    ELSE IF confidence >= HighConfidence
         THEN (IF disease \in {"Powdery", "Rust"} THEN "High" ELSE "Medium")
    ELSE IF confidence >= MediumConfidence THEN "Medium"
    ELSE "Low"

get_severity_level(confidence, disease) ==
    IF disease = "Healthy" THEN "Good"
    ELSE IF confidence > HighConfidence
         THEN (IF disease \in {"Powdery", "Rust"} THEN "High" ELSE "Medium")
    ELSE IF confidence > MediumConfidence THEN "Medium"
    ELSE "Low"

treatments ==
    [Healthy |->
       [advice |-> "Your plant appears healthy! Continue with regular care and monitoring.",
        products |-> <<"Balanced NPK Fertilizer">>,
        prevention |-> <<"Maintain proper plant spacing for air circulation",
                         "Water early in the day to allow leaves to dry",
                         "Remove any dead or diseased plant material",
                         "Monitor plants regularly for early disease detection">>],
     Powdery |->
       [advice |-> "Powdery mildew detected. This fungal disease appears as white powdery spots on leaves. Treat immediately to prevent spread.",
        products |-> <<"Sulfur-based Fungicide", "Neem Oil", "Baking Soda Solution">>,
        prevention |-> <<"Improve air circulation around plants",
                         "Avoid overhead watering",
                         "Remove and destroy infected plant parts",
                         "Apply preventive fungicide during humid conditions",
                         "Plant resistant varieties when available">>],
     Rust |->
       [advice |-> "Rust disease detected. This fungal infection causes orange-brown pustules on leaves. Early treatment is crucial.",
        products |-> <<"Copper-based Fungicide", "Mancozeb", "Triazole Fungicides">>,
        prevention |-> <<"Remove infected leaves immediately",
                         "Avoid working with plants when wet",
                         "Ensure good drainage",
                         "Space plants properly for air flow",
                         "Rotate crops annually",
                         "Use disease-free seeds and transplants">>]]

default_treatment ==
    [advice |-> "Disease detected. Consult with agricultural extension services for proper diagnosis and treatment.",
     products |-> <<>>,
     prevention |-> <<"Maintain good plant hygiene", "Monitor plants regularly">>]

\* mutant: treatments[disease]; an unknown label has no entry
get_treatment_advice_indexed(disease) ==
    IF disease \in DOMAIN treatments THEN treatments[disease]
    ELSE [error |-> KeyErrorText(disease)]

\* treatments.get(disease, default)
get_treatment_advice(disease) ==
    IF disease \in DOMAIN treatments THEN treatments[disease] ELSE default_treatment

\* fertilizer_info of get_fertilizer_advice
fertilizer_info ==
    [n \in {"Urea", "DAP", "14-35-14", "28-28", "17-17-17", "20-20", "10-26-26"} |->
       CASE n = "Urea" ->
              [description |-> "High nitrogen fertilizer (46% N)",
               usage |-> "Promotes vegetative growth and leaf development",
               application |-> "Apply before planting or during early growth stages"]
         [] n = "DAP" ->
              [description |-> "Diammonium Phosphate (18% N, 46% P)",
               usage |-> "Excellent for root development and early plant growth",
               application |-> "Apply at planting time for best results"]
         [] n = "14-35-14" ->
              [description |-> "Balanced fertilizer with high phosphorus",
               usage |-> "Good for flowering and fruit development",
               application |-> "Apply during flowering stage"]
         [] n = "28-28" ->
              [description |-> "Equal nitrogen and phosphorus",
               usage |-> "Balanced nutrition for overall plant health",
               application |-> "Can be used throughout growing season"]
         [] n = "17-17-17" ->
              [description |-> "Complete balanced fertilizer",
               usage |-> "All-purpose nutrition for healthy growth",
               application |-> "Suitable for most crops and growth stages"]
         [] n = "20-20" ->
              [description |-> "High nitrogen-phosphorus blend",
               usage |-> "Promotes both vegetative and root growth",
               application |-> "Best for early to mid-season application"]
         [] n = "10-26-26" ->
              [description |-> "Low nitrogen, high phosphorus and potassium",
               usage |-> "Excellent for fruit and flower development",
               application |-> "Apply during reproductive stages"]]

\* fertilizer_info.get(fertilizer, {...}): the entry of a known label, a
\* generic entry built from the label otherwise
base_info(fertilizer) ==
    IF fertilizer \in DOMAIN fertilizer_info THEN fertilizer_info[fertilizer]
    ELSE [description |-> fertilizer \o " fertilizer",
          usage |-> "Follow manufacturer guidelines",
          application |-> "Apply according to crop requirements"]

\* thresholds of the soil analysis, in the units of the request
LowNitrogen == 20
HighNitrogen == 50
LowPhosphorous == 15
HighPhosphorous == 40
LowPotassium == 20
HighPotassium == 50

NitrogenSentences ==
    [low |-> "Low nitrogen detected - this fertilizer will help boost leaf growth",
     high |-> "High nitrogen levels - monitor to prevent excessive vegetative growth",
     adequate |-> "Nitrogen levels are adequate"]
PhosphorousSentences ==
    [low |-> "Low phosphorus - will improve root development and flowering",
     good |-> "Good phosphorus levels - maintain current status",
     moderate |-> "Moderate phosphorus levels"]
PotassiumSentences ==
    [low |-> "Low potassium - will enhance disease resistance and fruit quality",
     excellent |-> "Excellent potassium levels",
     moderate |-> "Moderate potassium levels"]

\* mutant: the low tiers are tested with <=
soil_analysis_inclusive(nitrogen, phosphorous, potassium) ==
    << IF nitrogen <= LowNitrogen THEN NitrogenSentences.low
       ELSE IF nitrogen > HighNitrogen THEN NitrogenSentences.high
       ELSE NitrogenSentences.adequate,
       IF phosphorous <= LowPhosphorous THEN PhosphorousSentences.low
       ELSE IF phosphorous > HighPhosphorous THEN PhosphorousSentences.good
       ELSE PhosphorousSentences.moderate,
       IF potassium <= LowPotassium THEN PotassiumSentences.low
       ELSE IF potassium > HighPotassium THEN PotassiumSentences.excellent
       ELSE PotassiumSentences.moderate >>

\* the three if/elif/else statements after "Soil Analysis Recommendations"
soil_analysis(nitrogen, phosphorous, potassium) ==
    << IF nitrogen < LowNitrogen THEN NitrogenSentences.low
       ELSE IF nitrogen > HighNitrogen THEN NitrogenSentences.high
       ELSE NitrogenSentences.adequate,
       IF phosphorous < LowPhosphorous THEN PhosphorousSentences.low
       ELSE IF phosphorous > HighPhosphorous THEN PhosphorousSentences.good
       ELSE PhosphorousSentences.moderate,
       IF potassium < LowPotassium THEN PotassiumSentences.low
       ELSE IF potassium > HighPotassium THEN PotassiumSentences.excellent
       ELSE PotassiumSentences.moderate >>

\* get_fertilizer_advice: the advisory is the sequence of its lines, without
\* their pictographs and bullets; the closing temperature and humidity line,
\* which echoes two request values, is left out
get_fertilizer_advice(fertilizer, input_data) ==
    [raised |-> FALSE,
     advice |->
       << "Recommended Fertilizer: " \o fertilizer,
          "Description: " \o base_info(fertilizer).description,
          "Usage: " \o base_info(fertilizer).usage,
          "Application: " \o base_info(fertilizer).application,
          "Soil Analysis Recommendations:" >>
       \o soil_analysis(input_data.Nitrogen, input_data.Phosphorous,
                        input_data.Potassium)
       \o << "Crop: " \o input_data.Crop \o " | Soil: " \o input_data.Soil >>]

(***************************************************************************)
(* The handlers, up to their persistence block                             *)
(***************************************************************************)
\* mutant: CROP_DICT[prediction[0]] without the membership test, as the
\* disease handler indexes DISEASE_LABELS
predict_crop_unchecked_lookup(m, data, out) ==
    LET missing == FirstMissing("crop", data)
        garbled == FirstGarbled("crop", data)
    IN  IF missing # None
        THEN Return(Error(400, "Missing field: " \o missing), FALSE, NoOutput)
        ELSE IF garbled # None THEN Raised(FloatErrorText, FALSE, NoOutput)
        ELSE IF "crop_model" \notin m
        THEN Return(Error(500, NotAvailable.crop), FALSE, NoOutput)
        ELSE IF "crop_minmax" \notin m
        THEN Raised(KeyErrorText("crop_minmax"), FALSE, NoOutput)
        ELSE IF out.fault = "transform"
        THEN Raised(FaultText.transform, TRUE, NoOutput)
        ELSE IF "crop_scaler" \notin m
        THEN Raised(KeyErrorText("crop_scaler"), TRUE, NoOutput)
        ELSE IF out.fault = "predict"
        THEN Raised(FaultText.predict, TRUE, NoOutput)
        ELSE IF out.index \in DOMAIN CROP_DICT
        THEN Predicted([label |-> CROP_DICT[out.index],
                        confidence |-> out.confidence, value |-> out.index],
                       out)
        ELSE Raised(ToString(out.index), TRUE, out)

predict_crop_body(m, data, out) ==
    LET missing == FirstMissing("crop", data)
        garbled == FirstGarbled("crop", data)
    IN  IF missing # None
        THEN Return(Error(400, "Missing field: " \o missing), FALSE, NoOutput)
        ELSE IF garbled # None THEN Raised(FloatErrorText, FALSE, NoOutput)
        ELSE IF "crop_model" \notin m
        THEN Return(Error(500, NotAvailable.crop), FALSE, NoOutput)
        ELSE IF "crop_minmax" \notin m
        THEN Raised(KeyErrorText("crop_minmax"), FALSE, NoOutput)
        ELSE IF out.fault = "transform"
        THEN Raised(FaultText.transform, TRUE, NoOutput)
        ELSE IF "crop_scaler" \notin m
        THEN Raised(KeyErrorText("crop_scaler"), TRUE, NoOutput)
        ELSE IF out.fault = "predict"
        THEN Raised(FaultText.predict, TRUE, NoOutput)
        ELSE IF out.index \in DOMAIN CROP_DICT
        THEN Predicted([label |-> CROP_DICT[out.index],
                        confidence |-> out.confidence, value |-> out.index],
                       out)
        ELSE Return(Response(200,
                 [success |-> FALSE,
                  message |-> "Could not determine the best crop with the provided data."]),
                 TRUE, out)

detect_disease_body(m, data, out) ==
    IF ~data.has_file THEN Return(Error(400, "No file uploaded"), FALSE, NoOutput)
    ELSE IF data.filename = "" THEN Return(Error(400, "No file selected"), FALSE, NoOutput)
    ELSE IF "disease_interpreter" \notin m
    THEN Return(Error(500, NotAvailable.disease), FALSE, NoOutput)
    ELSE IF out.fault = "save" THEN Raised(FaultText.save, FALSE, NoOutput)
    ELSE IF out.fault = "save_partial"
    THEN Saved(Raised(FaultText.save_partial, FALSE, NoOutput))
    ELSE IF out.fault = "load_img"
    THEN RaisedInTry(FaultText.load_img, FALSE, NoOutput)
    ELSE IF "disease_input_details" \notin m
    THEN RaisedInTry(KeyErrorText("disease_input_details"), FALSE, NoOutput)
    ELSE IF "disease_output_details" \notin m
    THEN RaisedInTry(KeyErrorText("disease_output_details"), FALSE, NoOutput)
    ELSE IF out.fault = "invoke"
    THEN RaisedInTry(FaultText.invoke, TRUE, NoOutput)
    ELSE IF out.index \notin DOMAIN DISEASE_LABELS
    THEN RaisedInTry(ToString(out.index), TRUE, out)
    ELSE Saved(Predicted([label |-> DISEASE_LABELS[out.index],
                          confidence |-> out.confidence, value |-> out.index],
                         out))

predict_crop_yield_body(m, data, out) ==
    LET missing == FirstMissing("yield", data)
        garbled == FirstGarbled("yield", data)
    IN  IF missing # None
        THEN Return(Error(400, "Missing field: " \o missing), FALSE, NoOutput)
        ELSE IF "yield_model" \notin m
        THEN Return(Error(500, NotAvailable.yield), FALSE, NoOutput)
        ELSE IF garbled # None
        THEN Raised(IF garbled = "Year" THEN IntErrorText ELSE FloatErrorText, FALSE, NoOutput)
        ELSE IF "yield_preprocessor" \notin m
        THEN Raised(KeyErrorText("yield_preprocessor"), FALSE, NoOutput)
        ELSE IF out.fault \in {"transform", "predict"}
        THEN Raised(FaultText[out.fault], TRUE, NoOutput)
        ELSE Predicted([label |-> None, confidence |-> 0, value |-> out.value], out)

recommend_fertilizer_body(m, data, out) ==
    LET missing == FirstMissing("fertilizer", data)
        garbled == FirstGarbled("fertilizer", data)
    IN  IF missing # None
        THEN Return(Error(400, "Missing field: " \o missing), FALSE, NoOutput)
        ELSE IF "fertilizer_model" \notin m
        THEN Return(Error(500, NotAvailable.fertilizer), FALSE, NoOutput)
        ELSE IF garbled # None THEN Raised(FloatErrorText, FALSE, NoOutput)
        ELSE IF out.fault = "predict"
        THEN Raised(FaultText.predict, TRUE, NoOutput)
        ELSE Predicted([label |-> out.label, confidence |-> out.confidence,
                        value |-> 0], out)

\* The success payload built after the persistence block.  Fields that only
\* echo request values (advice text of the crop handler, factors,
\* soil_analysis, conditions) are left out.
SuccessBody(ep, res) ==
    CASE ep = "crop" ->
           [success |-> TRUE, recommended_crop |-> res.label,
            confidence |-> res.confidence,
            message |-> res.label \o " is the best crop for these conditions"]
      [] ep = "disease" ->
           [success |-> TRUE, disease |-> res.label,
            confidence |-> res.confidence,
            treatment_advice |-> get_treatment_advice(res.label).advice,
            recommended_products |-> get_treatment_advice(res.label).products,
            prevention_tips |-> get_treatment_advice(res.label).prevention,
            severity |-> get_severity_level(res.confidence, res.label)]
      [] ep = "yield" ->
           [success |-> TRUE, predicted_yield |-> res.value]
      [] ep = "fertilizer" ->
           [success |-> TRUE, recommended_fertilizer |-> res.label,
            confidence |-> res.confidence]

(***************************************************************************)
(* The history endpoint                                                    *)
(***************************************************************************)
Reverse(q) == [i \in 1..Len(q) |-> q[Len(q) + 1 - i]]

\* table(t).select('*').eq('user_id', user_id).order('created_at', desc=True)
\* .limit(10).execute().data: the user's rows, newest first, at most 10
Select(st, t, user_id) ==
    LET mine == SelectSeq(st[t], LAMBDA row : row[2] = user_id)
    IN  SubSeq(Reverse(mine), 1, Min({Len(mine), HistoryLimit}))

\* sum(len(v) for v in history.values())
total_records(history) ==
    LET q == HistoryCategories
    IN  Len(history[q[1]]) + Len(history[q[2]]) + Len(history[q[3]])
          + Len(history[q[4]])

\* mutant: one try block around the four queries, the first failure goes to
\* the handler's except clause
get_user_history_single_try(sb, st, user_id, failing) ==
    IF ~sb THEN Error(500, "Database not configured")
    ELSE IF failing # {} THEN Error(500, "store read failed")
    ELSE LET history == [c \in Range(HistoryCategories) |-> Select(st, c, user_id)]
         IN  Response(200, [success |-> TRUE, user_id |-> user_id,
                            history |-> history,
                            total_records |-> total_records(history)])

\* get_user_history: each query has its own try/except that stores [] for
\* its category; `failing` is the set of queries that raise
get_user_history_body(sb, st, user_id, failing) ==
    IF ~sb THEN Error(500, "Database not configured")
    ELSE LET history == [c \in Range(HistoryCategories) |->
                           IF c \in failing THEN <<>> ELSE Select(st, c, user_id)]
         IN  Response(200, [success |-> TRUE, user_id |-> user_id,
                            history |-> history,
                            total_records |-> total_records(history)])

(***************************************************************************)
(* Serving one request                                                     *)
(***************************************************************************)
\* number of rows in the store
StoreRows(st) ==
    LET q == HistoryCategories
    IN  Len(st[q[1]]) + Len(st[q[2]]) + Len(st[q[3]]) + Len(st[q[4]])
          + Len(st["yield_predictions"])

\* f"{timestamp}_{secure_filename(file.filename)}" under the upload folder
UploadPath(data) == "uploads/20240101_120000_" \o data.filename

\* `finally: if os.path.exists(file_path): os.remove(file_path)`
Cleanup(data, files) ==
    IF data.endpoint = "disease" THEN files \ {UploadPath(data)} ELSE files

\* Control after the code before the persistence block: a return statement
\* ends the request, an exception goes to the except clause (through the
\* finally clause when it was raised inside detect_disease's inner try), a
\* prediction enters the retry loop when `supabase and user_id` holds.
Begin(data, step) ==
    /\ pc = "idle"
    /\ req' = data
    /\ result' = step.result
    /\ invoked' = step.invoked
    /\ output' = step.out
    /\ exc' = step.exc
    /\ resp' = step.resp
    /\ attempt' = 0
    /\ pc' = CASE step.kind = "return" -> "done"
               [] step.kind = "raise" -> "except"
               [] step.kind = "raise_in_try" -> "finally"
               [] step.kind = "predicted" ->
                    IF ShouldPersist(supabase, data.user_id)
                    THEN "insert" ELSE "respond"
    /\ UNCHANGED <<models, supabase, outcomes, sleeps, written, arg, ret, store,
                   threads, interpreter, crop_model, answered>>

predict_crop ==
    /\ pc = "idle"
    /\ StoreRows(store) < MaxRows
    /\ \E data \in JsonBodies("crop") :
       \E out \in Runs("crop", FirstMissing("crop", data) = None, CropOutputs) :
        /\ Begin(data, predict_crop_body(models, data, out))
        /\ UNCHANGED uploads

\* file.save(file_path) happens once the three early checks have passed
detect_disease ==
    /\ pc = "idle"
    /\ StoreRows(store) < MaxRows
    /\ \E data \in DiseaseBodies :
       \E out \in Runs("disease", data.has_file /\ data.filename # "",
                       DiseaseOutputs) :
        LET step == detect_disease_body(models, data, out)
        IN  /\ Begin(data, step)
            /\ uploads' = IF step.saved THEN uploads \cup {UploadPath(data)}
                          ELSE uploads

predict_crop_yield ==
    /\ pc = "idle"
    /\ StoreRows(store) < MaxRows
    /\ \E data \in JsonBodies("yield") :
       \E out \in Runs("yield", FirstMissing("yield", data) = None, YieldOutputs) :
        /\ Begin(data, predict_crop_yield_body(models, data, out))
        /\ UNCHANGED uploads

recommend_fertilizer ==
    /\ pc = "idle"
    /\ StoreRows(store) < MaxRows
    /\ \E data \in JsonBodies("fertilizer") :
       \E out \in Runs("fertilizer", FirstMissing("fertilizer", data) = None,
                       FertilizerOutputs) :
        /\ Begin(data, recommend_fertilizer_body(models, data, out))
        /\ UNCHANGED uploads

\* mutant: the `break` is missing, the loop goes on after a successful insert
NoBreak(a) ==
    IF a + 1 < max_retries THEN [pc |-> "insert", attempt |-> a + 1]
    ELSE [pc |-> "respond", attempt |-> a]

\* `break` after supabase.table(...).insert(...).execute() returned
AfterInsertReturns(a) == [pc |-> "respond", attempt |-> a]

\* mutant: the last failure is re-raised to the handler's except clause
ReraiseLastFailure(a) ==
    IF a < max_retries - 1 THEN [pc |-> "sleep", attempt |-> a]
    ELSE [pc |-> "except", attempt |-> a]

\* mutant: every failure sleeps, the last one included
SleepAfterEveryFailure(a) == [pc |-> "sleep", attempt |-> a]

\* mutant: a failed insert is attempted again at once, however many failed
RetryUntilStored(a) == [pc |-> "insert", attempt |-> a]

\* except Exception as e: sleep and retry while attempt < max_retries - 1,
\* otherwise print and leave the loop
AfterInsertRaises(a) ==
    IF a < max_retries - 1 THEN [pc |-> "sleep", attempt |-> a]
    ELSE [pc |-> "respond", attempt |-> a]

StoreErrorText == "store write failed"

\* one insert(...).execute() that returns: the row is in the table
InsertReturns ==
    /\ pc = "insert"
    /\ outcomes' = Append(outcomes, "ok")
    /\ written' = Append(written, <<InsertTable[req.endpoint], req.user_id>>)
    /\ store' = Insert(store, InsertTable[req.endpoint], req.user_id)
    /\ pc' = AfterInsertReturns(attempt).pc
    /\ attempt' = AfterInsertReturns(attempt).attempt
    /\ UNCHANGED <<models, supabase, req, result, sleeps, uploads, invoked,
                   output, exc, resp, arg, ret, threads, interpreter, crop_model, answered>>

\* one insert(...).execute() that raises: no row is written
InsertRaises ==
    /\ pc = "insert"
    /\ outcomes' = Append(outcomes, "raise")
    /\ exc' = StoreErrorText
    /\ pc' = AfterInsertRaises(attempt).pc
    /\ attempt' = AfterInsertRaises(attempt).attempt
    /\ UNCHANGED <<models, supabase, req, result, sleeps, written, uploads,
                   invoked, output, resp, arg, ret, store,
                   threads, interpreter, crop_model, answered>>

\* time.sleep(1), then the next iteration of the for loop
Sleep ==
    /\ pc = "sleep"
    /\ sleeps' = sleeps + 1
    /\ attempt' = attempt + 1
    /\ pc' = IF attempt + 1 < max_retries THEN "insert" ELSE "respond"
    /\ UNCHANGED <<models, supabase, req, result, outcomes, written, uploads,
                   invoked, output, exc, resp, arg, ret, store,
                   threads, interpreter, crop_model, answered>>

\* return jsonify({... 'success': True ...}) after the persistence block;
\* in detect_disease the return is inside the try, so the finally clause runs
Respond ==
    /\ pc = "respond"
    /\ resp' = Response(200, SuccessBody(req.endpoint, result))
    /\ uploads' = Cleanup(req, uploads)
    /\ pc' = "done"
    /\ UNCHANGED <<models, supabase, req, result, attempt, outcomes, sleeps,
                   written, invoked, output, exc, arg, ret, store,
                   threads, interpreter, crop_model, answered>>

\* the finally clause of detect_disease on the way to the except clause
Finally ==
    /\ pc = "finally"
    /\ uploads' = Cleanup(req, uploads)
    /\ pc' = "except"
    /\ UNCHANGED <<models, supabase, req, result, attempt, outcomes, sleeps,
                   written, invoked, output, exc, resp, arg, ret, store,
                   threads, interpreter, crop_model, answered>>

\* mutant: the handler has no except clause; the exception escapes to the
\* framework, whose 500 handler answers without the error's text
ExceptionEscapes ==
    /\ pc = "except"
    /\ resp' = Error(500, "Internal server error")
    /\ pc' = "done"
    /\ UNCHANGED <<models, supabase, req, result, attempt, outcomes, sleeps,
                   written, uploads, invoked, output, exc, arg, ret, store,
                   threads, interpreter, crop_model, answered>>

\* except Exception as e: return jsonify({'success': False, 'error': str(e)}), 500
Except ==
    /\ pc = "except"
    /\ resp' = Error(500, exc)
    /\ pc' = "done"
    /\ UNCHANGED <<models, supabase, req, result, attempt, outcomes, sleeps,
                   written, uploads, invoked, output, exc, arg, ret, store,
                   threads, interpreter, crop_model, answered>>

\* the path parameter of GET /api/user/history/<user_id>
HistoryUsers == {"u1", "u2"}

get_user_history ==
    /\ pc = "idle"
    /\ \E user_id \in HistoryUsers, failing \in SUBSET Range(HistoryCategories) :
        /\ req' = [endpoint |-> "history", user_id |-> user_id,
                   failing |-> failing]
        /\ resp' = get_user_history_body(supabase, store, user_id, failing)
    /\ pc' = "done"
    /\ UNCHANGED <<models, supabase, result, attempt, outcomes, sleeps, written,
                   uploads, invoked, output, exc, arg, ret, store,
                   threads, interpreter, crop_model, answered>>

\* the worker takes the next request
NextRequest ==
    /\ pc = "done"
    /\ pc' = "idle"
    /\ req' = [endpoint |-> None]
    /\ result' = NoResult
    /\ attempt' = 0
    /\ outcomes' = <<>>
    /\ sleeps' = 0
    /\ written' = <<>>
    /\ invoked' = FALSE
    /\ output' = NoOutput
    /\ exc' = None
    /\ resp' = [status |-> 0]
    /\ UNCHANGED <<models, supabase, uploads, arg, ret, store,
                   threads, interpreter, crop_model, answered>>

Init ==
    /\ models \in LoadableRegistries
    /\ supabase \in BOOLEAN
    /\ uploads = {}
    /\ arg = NotCalled
    /\ ret = NotCalled
    /\ store = EmptyStore
    /\ threads = <<>>
    /\ interpreter = FreshInterpreter
    /\ crop_model = <<>>
    /\ answered = <<>>
    /\ Idle

Next ==
    \/ predict_crop
    \/ detect_disease
    \/ predict_crop_yield
    \/ recommend_fertilizer
    \/ get_user_history
    \/ InsertReturns
    \/ InsertRaises
    \/ Sleep
    \/ Respond
    \/ Finally
    \/ Except
    \/ NextRequest

Spec == Init /\ [][Next]_vars

\* The same requests when every call the handler makes comes back: each
\* insert(...).execute() returns or raises, time.sleep(1) returns, and the
\* interpreter goes on to the statement control has reached.  Nothing is
\* assumed about the arrival of requests.
SpecLive ==
    /\ Init
    /\ [][Next]_vars
    /\ WF_vars(InsertReturns \/ InsertRaises)
    /\ WF_vars(Sleep)
    /\ WF_vars(Respond)
    /\ WF_vars(Finally)
    /\ WF_vars(Except)

(***************************************************************************)
(* Concurrent disease requests on the shared interpreter                   *)
(*                                                                         *)
(* app.run serves each request on its own thread; every thread runs        *)
(* set_tensor, invoke and get_tensor on the one interpreter object of the  *)
(* registry, with no lock.  The steps are interleaved call by call.        *)
(***************************************************************************)
Threads == 1..MaxThreads

\* An uploaded image after load_img and preprocessing, identified by the
\* output the model computes for it
LeafImages == [index : 0..MaxDiseaseClass, confidence : {6, 9}]

InitConcurrent ==
    /\ models = {"disease_interpreter", "disease_input_details",
                 "disease_output_details"}
    /\ supabase = FALSE
    /\ uploads = {}
    /\ arg = NotCalled
    /\ ret = NotCalled
    /\ store = EmptyStore
    /\ threads \in [Threads -> [pc : {"set_tensor"}, x : LeafImages,
                                predicted_class : {0}, confidence : {0}]]
    /\ interpreter = FreshInterpreter
    /\ crop_model = <<>>
    /\ answered = <<>>
    /\ Idle

\* what a step of the inference leaves alone
RequestState ==
    <<models, supabase, pc, req, result, attempt, outcomes, sleeps, written,
      uploads, invoked, output, exc, resp, arg, ret, store, crop_model,
      answered>>

\* interpreter.set_tensor(input_details[0]['index'], x)
set_tensor(t) ==
    /\ threads[t].pc = "set_tensor"
    /\ interpreter' = [interpreter EXCEPT !.input = threads[t].x]
    /\ threads' = [threads EXCEPT ![t].pc = "invoke"]
    /\ UNCHANGED RequestState

\* interpreter.invoke(): the output tensor is computed from the input tensor
invoke(t) ==
    /\ threads[t].pc = "invoke"
    /\ interpreter' = [interpreter EXCEPT !.output = interpreter.input]
    /\ threads' = [threads EXCEPT ![t].pc = "get_tensor"]
    /\ UNCHANGED RequestState

\* predictions = interpreter.get_tensor(...)[0]; predicted_class =
\* np.argmax(predictions); confidence = float(predictions[predicted_class])
get_tensor(t) ==
    /\ threads[t].pc = "get_tensor"
    /\ threads' = [threads EXCEPT ![t].pc = "done",
                                  ![t].predicted_class = interpreter.output.index,
                                  ![t].confidence = interpreter.output.confidence]
    /\ UNCHANGED interpreter
    /\ UNCHANGED RequestState

NextConcurrent ==
    \/ \E t \in Threads : set_tensor(t)
    \/ \E t \in Threads : invoke(t)
    \/ \E t \in Threads : get_tensor(t)

SpecConcurrent == InitConcurrent /\ [][NextConcurrent]_vars

(***************************************************************************)
(* Crop requests served one after the other by the same process            *)
(*                                                                         *)
(* Here a request carries its seven values and the classifier is a fixed   *)
(* function of the feature vector, as a fitted scikit-learn model is.      *)
(***************************************************************************)
\* [N, P, K, temp, humidity, ph, rainfall]
FeatureVectors == {<<90, 42, 43, 21, 82, 7, 203>>, <<20, 30, 40, 25, 60, 6, 100>>}

\* mutant: the classifier keeps state between calls
predict_after_earlier_calls(features) ==
    IF answered = <<>> THEN crop_model[features]
    ELSE [crop_model[features] EXCEPT !.confidence = 10]

\* models['crop_model'].predict(...) and .predict_proba(...).max()
predict(features) == crop_model[features]

InitRepeat ==
    /\ models \in LoadableRegistries
    /\ supabase \in BOOLEAN
    /\ uploads = {}
    /\ arg = NotCalled
    /\ ret = NotCalled
    /\ store = EmptyStore
    /\ threads = <<>>
    /\ interpreter = FreshInterpreter
    /\ crop_model \in [FeatureVectors -> [index : {1, Len(CropNames) + 1},
                                          confidence : {7, 10}]]
    /\ answered = <<>>
    /\ Idle

\* predict_crop for a body with every field present and castable
predict_crop_values ==
    /\ pc = "idle"
    /\ Len(answered) < MaxRequests
    /\ \E features \in FeatureVectors, user_id \in UserIds :
        LET data == [endpoint |-> "crop",
                     present |-> Range(required_fields.crop), garbled |-> {},
                     user_id |-> user_id, features |-> features]
            out == [fault |-> "none"] @@ predict(features)
        IN  Begin(data, predict_crop_body(models, data, out))
    /\ UNCHANGED uploads

\* the worker takes the next request
NextCropRequest ==
    /\ pc = "done"
    /\ answered' = Append(answered, <<req.features, resp>>)
    /\ pc' = "idle"
    /\ req' = [endpoint |-> None]
    /\ result' = NoResult
    /\ attempt' = 0
    /\ outcomes' = <<>>
    /\ sleeps' = 0
    /\ written' = <<>>
    /\ invoked' = FALSE
    /\ output' = NoOutput
    /\ exc' = None
    /\ resp' = [status |-> 0]
    /\ UNCHANGED <<models, supabase, uploads, arg, ret, store, threads,
                   interpreter, crop_model>>

NextRepeat ==
    \/ predict_crop_values
    \/ InsertReturns
    \/ InsertRaises
    \/ Sleep
    \/ Respond
    \/ Except
    \/ NextCropRequest

SpecRepeat == InitRepeat /\ [][NextRepeat]_vars

(***************************************************************************)
(* Specification of get_severity_level as a function of its arguments      *)
(***************************************************************************)
SeverityLabels == {"Healthy", "Powdery", "Rust", "Blight", "Mosaic", ""}

InitSeverity ==
    /\ arg \in [confidence : Confidences, disease : SeverityLabels]
    /\ ret = NotCalled
    /\ models = {}
    /\ supabase = FALSE
    /\ uploads = {}
    /\ store = EmptyStore
    /\ threads = <<>>
    /\ interpreter = FreshInterpreter
    /\ crop_model = <<>>
    /\ answered = <<>>
    /\ Idle

CallGetSeverityLevel ==
    /\ ret = NotCalled
    /\ ret' = Returned(get_severity_level(arg.confidence, arg.disease))
    /\ UNCHANGED <<models, supabase, pc, req, result, attempt, outcomes, sleeps,
                   written, uploads, invoked, output, exc, resp, arg, store,
                   threads, interpreter, crop_model, answered>>

NextSeverity == CallGetSeverityLevel

SpecSeverity == InitSeverity /\ [][NextSeverity]_vars

(***************************************************************************)
(* Specification of the advisory lookups as functions of their arguments   *)
(***************************************************************************)
\* labels the disease model and the fertilizer model can hand to the lookups:
\* every key of the tables and labels the tables do not have
TreatmentLabels == {"Healthy", "Powdery", "Rust", "Blight", "healthy", ""}
FertilizerLabels ==
    {"Urea", "DAP", "14-35-14", "28-28", "17-17-17", "20-20", "10-26-26",
     "Compost", "urea", ""}

\* nutrient values on both sides of every threshold
NutrientValues == {0, 14, 15, 16, 19, 20, 21, 39, 40, 41, 49, 50, 51}

AdvisoryCalls ==
    [fn : {"get_treatment_advice"}, disease : TreatmentLabels]
    \cup
    [fn : {"get_fertilizer_advice"}, fertilizer : FertilizerLabels,
     input_data : [Nitrogen : NutrientValues, Phosphorous : NutrientValues,
                   Potassium : NutrientValues, Crop : {"Maize"},
                   Soil : {"Loamy"}]]

InitAdvisory ==
    /\ arg \in AdvisoryCalls
    /\ ret = NotCalled
    /\ models = {}
    /\ supabase = FALSE
    /\ uploads = {}
    /\ store = EmptyStore
    /\ threads = <<>>
    /\ interpreter = FreshInterpreter
    /\ crop_model = <<>>
    /\ answered = <<>>
    /\ Idle

CallGetTreatmentAdvice ==
    /\ ret = NotCalled
    /\ arg.fn = "get_treatment_advice"
    /\ ret' = Returned(get_treatment_advice(arg.disease))
    /\ UNCHANGED <<models, supabase, pc, req, result, attempt, outcomes, sleeps,
                   written, uploads, invoked, output, exc, resp, arg, store,
                   threads, interpreter, crop_model, answered>>

CallGetFertilizerAdvice ==
    /\ ret = NotCalled
    /\ arg.fn = "get_fertilizer_advice"
    /\ ret' = Returned(get_fertilizer_advice(arg.fertilizer, arg.input_data))
    /\ UNCHANGED <<models, supabase, pc, req, result, attempt, outcomes, sleeps,
                   written, uploads, invoked, output, exc, resp, arg, store,
                   threads, interpreter, crop_model, answered>>

NextAdvisory == CallGetTreatmentAdvice \/ CallGetFertilizerAdvice

SpecAdvisory == InitAdvisory /\ [][NextAdvisory]_vars

(***************************************************************************)
(* Specification of the label and confidence taken from a model's output   *)
(***************************************************************************)
\* A vector of class probabilities in tenths over three classes: the row
\* predict_proba returns, or the output tensor of the disease model
ProbabilityVectors == {p \in [1..3 -> 0..10] : p[1] + p[2] + p[3] = 10}

\* classes_ of the fitted classifiers (three of them) in the order of the
\* columns of predict_proba
classes_ ==
    [crop |-> <<1, 2, 3>>, fertilizer |-> <<"10-26-26", "14-35-14", "DAP">>]

\* np.argmax: the first index of the largest entry (1-based here)
argmax(p) == Min({i \in DOMAIN p : \A j \in DOMAIN p : p[i] >= p[j]})

\* classifier.predict(X)[0] of a scikit-learn classifier such as the
\* RandomForestClassifier of export_fertilizer_model.py: the class whose
\* column of predict_proba is largest
classifier_predict(classes, p) == classes[argmax(p)]

\* mutant: the probability of the first class, predict_proba(...)[0][0]
first_probability(p) == p[1]

\* predict_proba(...).max() and np.max(prediction_proba)
max_probability(p) == Max(Range(p))

\* predict_crop: prediction, confidence, recommended_crop
classify_crop(p) ==
    [label |-> CROP_DICT[classifier_predict(classes_.crop, p)],
     confidence |-> max_probability(p)]

\* recommend_fertilizer: predicted_fertilizer, confidence
classify_fertilizer(p) ==
    [label |-> classifier_predict(classes_.fertilizer, p),
     confidence |-> max_probability(p)]

\* detect_disease: predicted_class, confidence, disease
classify_disease(p) ==
    LET predicted_class == argmax(p) - 1
    IN  [label |-> DISEASE_LABELS[predicted_class],
         confidence |-> p[predicted_class + 1]]

InitConfidence ==
    /\ arg \in [endpoint : {"crop", "disease", "fertilizer"},
                proba : ProbabilityVectors]
    /\ ret = NotCalled
    /\ models = {}
    /\ supabase = FALSE
    /\ uploads = {}
    /\ store = EmptyStore
    /\ threads = <<>>
    /\ interpreter = FreshInterpreter
    /\ crop_model = <<>>
    /\ answered = <<>>
    /\ Idle

ClassifyCrop ==
    /\ ret = NotCalled
    /\ arg.endpoint = "crop"
    /\ ret' = Returned(classify_crop(arg.proba))
    /\ UNCHANGED <<models, supabase, pc, req, result, attempt, outcomes, sleeps,
                   written, uploads, invoked, output, exc, resp, arg, store,
                   threads, interpreter, crop_model, answered>>

ClassifyDisease ==
    /\ ret = NotCalled
    /\ arg.endpoint = "disease"
    /\ ret' = Returned(classify_disease(arg.proba))
    /\ UNCHANGED <<models, supabase, pc, req, result, attempt, outcomes, sleeps,
                   written, uploads, invoked, output, exc, resp, arg, store,
                   threads, interpreter, crop_model, answered>>

ClassifyFertilizer ==
    /\ ret = NotCalled
    /\ arg.endpoint = "fertilizer"
    /\ ret' = Returned(classify_fertilizer(arg.proba))
    /\ UNCHANGED <<models, supabase, pc, req, result, attempt, outcomes, sleeps,
                   written, uploads, invoked, output, exc, resp, arg, store,
                   threads, interpreter, crop_model, answered>>

NextConfidence == ClassifyCrop \/ ClassifyDisease \/ ClassifyFertilizer

SpecConfidence == InitConfidence /\ [][NextConfidence]_vars

(***************************************************************************)
(* Specification of the inference statements of predict_crop               *)
(*                                                                         *)
(* One request with its seven values runs lines 162-185 statement by       *)
(* statement.  The fitted transformers and the classifier are opaque: the  *)
(* value a call returns is the term "callee applied to its argument", so   *)
(* that what each call received can be read off the value it produced.     *)
(***************************************************************************)
\* the values a JSON body carries for a numeric field
JsonNumbers == {"0.5", "2"}

\* float(v), in tenths
float(v) == IF v = "0.5" THEN 5 ELSE 20

\* bodies of crop requests that pass validation
CropBodies == [Range(required_fields.crop) -> JsonNumbers]

\* N = float(data['nitrogen']) ...; feature_list = [N, P, K, temp, humidity, ph, rainfall]
feature_list(data) ==
    <<float(data.nitrogen), float(data.phosphorus), float(data.potassium),
      float(data.temperature), float(data.humidity), float(data.ph),
      float(data.rainfall)>>

\* models[key].transform(X), .predict(X), .predict_proba(X)
Call(key, method, X) == [object |-> key, method |-> method, argument |-> X]

\* mutant: standard scaling applied to the raw features
standard_scaling_first(single_pred) == Call("crop_scaler", "transform", single_pred)

\* mx_features = models['crop_minmax'].transform(single_pred)
minmax_scaling(single_pred) == Call("crop_minmax", "transform", single_pred)

\* sc_mx_features = models['crop_scaler'].transform(mx_features)
standard_scaling(mx_features) == Call("crop_scaler", "transform", mx_features)

\* models['crop_model'].predict(sc_mx_features)
crop_predict(locals) == Call("crop_model", "predict", locals.sc_mx_features)

\* models['crop_model'].predict_proba(sc_mx_features)
crop_predict_proba(locals) ==
    Call("crop_model", "predict_proba", locals.sc_mx_features)

\* the handler's locals before line 176, and the calls made so far
NoLocals ==
    [line |-> 176, single_pred |-> NoOutput, mx_features |-> NoOutput,
     sc_mx_features |-> NoOutput, prediction |-> NoOutput,
     proba |-> NoOutput, calls |-> <<>>]

InitPipeline ==
    /\ arg \in CropBodies
    /\ ret = NoLocals
    /\ models \in {m \in LoadableRegistries : "crop_model" \in m}
    /\ supabase = FALSE
    /\ uploads = {}
    /\ store = EmptyStore
    /\ threads = <<>>
    /\ interpreter = FreshInterpreter
    /\ crop_model = <<>>
    /\ answered = <<>>
    /\ Idle

PipelineFrame ==
    UNCHANGED <<models, supabase, pc, req, result, attempt, outcomes, sleeps,
                written, uploads, invoked, output, exc, resp, arg, store,
                threads, interpreter, crop_model, answered>>

\* lines 176-177
AssembleFeatures ==
    /\ ret.line = 176
    /\ ret' = [ret EXCEPT !.line = 180,
                          !.single_pred = [array |-> feature_list(arg)]]
    /\ PipelineFrame

\* line 180
MinMaxTransform ==
    /\ ret.line = 180
    /\ "crop_minmax" \in models
    /\ LET r == minmax_scaling(ret.single_pred)
       IN  ret' = [ret EXCEPT !.line = 181, !.mx_features = r,
                              !.calls = Append(@, r)]
    /\ PipelineFrame

\* line 181
StandardTransform ==
    /\ ret.line = 181
    /\ "crop_scaler" \in models
    /\ LET r == standard_scaling(ret.mx_features)
       IN  ret' = [ret EXCEPT !.line = 184, !.sc_mx_features = r,
                              !.calls = Append(@, r)]
    /\ PipelineFrame

\* line 184
Predict ==
    /\ ret.line = 184
    /\ LET r == crop_predict(ret)
       IN  ret' = [ret EXCEPT !.line = 185, !.prediction = r,
                              !.calls = Append(@, r)]
    /\ PipelineFrame

\* line 185
PredictProba ==
    /\ ret.line = 185
    /\ LET r == crop_predict_proba(ret)
       IN  ret' = [ret EXCEPT !.line = 188, !.proba = r,
                              !.calls = Append(@, r)]
    /\ PipelineFrame

\* line 180 when models['crop_minmax'] raises KeyError: control leaves for the
\* handler's except clause (line 231).  load_models stores 'crop_scaler'
\* before 'crop_minmax', so the lookup of line 181 finds its key whenever
\* that of line 180 did.
PipelineKeyError ==
    /\ ret.line = 180
    /\ "crop_minmax" \notin models
    /\ ret' = [ret EXCEPT !.line = 231]
    /\ PipelineFrame

NextPipeline ==
    \/ AssembleFeatures
    \/ MinMaxTransform
    \/ StandardTransform
    \/ Predict
    \/ PredictProba
    \/ PipelineKeyError

SpecPipeline == InitPipeline /\ [][NextPipeline]_vars

(***************************************************************************)
(* Concurrent disease requests through the upload folder                   *)
(*                                                                         *)
(* Each thread is a request that passed the checks of lines 238-248 and    *)
(* runs the rest of detect_disease statement by statement: file.save,      *)
(* load_img, the inference, the persistence loop, the return statement,    *)
(* the finally clause (os.path.exists, then os.remove) and the except      *)
(* clause.  The folder is shared; a file is known by its path.  The        *)
(* inference is one step here: its tensors are not files, and their        *)
(* interleavings are those of SpecConcurrent.                              *)
(***************************************************************************)
\* file.filename as the client sent it
ClientFilenames == {"leaf.jpg", "../leaf.jpg", "rust.jpg"}

\* werkzeug's secure_filename: path separators and leading dots are dropped
secure_filename(name) == IF name = "../leaf.jpg" THEN "leaf.jpg" ELSE name

\* datetime.now().strftime("%Y%m%d_%H%M%S"): the second the request arrived in
Timestamps == {"20240101_120000", "20240101_120001"}

\* os.path.join(app.config['UPLOAD_FOLDER'], f"{timestamp}_{filename}")
file_path(th) ==
    "uploads/" \o th.timestamp \o "_" \o secure_filename(th.filename)

\* the pictures clients upload, known by what the model computes for them
UploadedImages == {x \in LeafImages : x.index \in {0, 1} /\ x.confidence = 9}

\* the upload folder: the content of each file that exists, by path
EmptyFolder == [p \in {} |-> NoOutput]
WriteFile(folder, p, content) ==
    [q \in DOMAIN folder \cup {p} |-> IF q = p THEN content ELSE folder[q]]
RemoveFile(folder, p) == [q \in DOMAIN folder \ {p} |-> folder[q]]

FileNotFoundText == "[Errno 2] No such file or directory"

InitUploads ==
    /\ models = {"disease_interpreter", "disease_input_details",
                 "disease_output_details"}
    /\ supabase \in BOOLEAN
    /\ uploads = EmptyFolder
    /\ arg = NotCalled
    /\ ret = NotCalled
    /\ store = EmptyStore
    /\ threads \in [Threads ->
                      [pc : {"save"}, filename : ClientFilenames,
                       timestamp : Timestamps, image : UploadedImages,
                       user_id : {None, "u1"}, img : {NoOutput},
                       disease : {None}, attempt : {0}, inserts : {0},
                       raising : {None}, status : {0}, error : {None}]]
    /\ interpreter = FreshInterpreter
    /\ crop_model = <<>>
    /\ answered = <<>>
    /\ Idle

\* what a step of a request thread leaves alone
UploadFrame ==
    UNCHANGED <<models, supabase, pc, req, result, attempt, outcomes, sleeps,
                written, invoked, output, exc, resp, arg, ret, crop_model,
                answered>>

\* file.save(file_path): the file is created, or replaced when it exists
save(t) ==
    /\ threads[t].pc = "save"
    /\ uploads' = WriteFile(uploads, file_path(threads[t]), threads[t].image)
    /\ threads' = [threads EXCEPT ![t].pc = "load_img"]
    /\ UNCHANGED <<store, interpreter>>
    /\ UploadFrame

\* img = load_img(file_path, ...): reads the file that is at the path now,
\* and raises FileNotFoundError when there is none
load_img(t) ==
    LET p == file_path(threads[t])
    IN  /\ threads[t].pc = "load_img"
        /\ threads' =
             IF p \in DOMAIN uploads
             THEN [threads EXCEPT ![t].pc = "infer", ![t].img = uploads[p]]
             ELSE [threads EXCEPT ![t].pc = "exists",
                                  ![t].raising = FileNotFoundText]
        /\ UNCHANGED <<uploads, store, interpreter>>
        /\ UploadFrame

\* lines 265-279: the inference on the loaded image and the label lookup
infer(t) ==
    /\ threads[t].pc = "infer"
    /\ interpreter' = [input |-> threads[t].img, output |-> threads[t].img]
    /\ threads' = [threads EXCEPT
                     ![t].disease = DISEASE_LABELS[threads[t].img.index],
                     ![t].pc = IF ShouldPersist(supabase, threads[t].user_id)
                               THEN "insert" ELSE "respond"]
    /\ UNCHANGED <<uploads, store>>
    /\ UploadFrame

\* one insert(...).execute() of this thread that returns
thread_insert_returns(t) ==
    /\ threads[t].pc = "insert"
    /\ store' = Insert(store, InsertTable.disease, threads[t].user_id)
    /\ threads' = [threads EXCEPT
                     ![t].inserts = @ + 1,
                     ![t].pc = AfterInsertReturns(threads[t].attempt).pc]
    /\ UNCHANGED <<uploads, interpreter>>
    /\ UploadFrame

\* one insert(...).execute() of this thread that raises
thread_insert_raises(t) ==
    /\ threads[t].pc = "insert"
    /\ threads' = [threads EXCEPT
                     ![t].inserts = @ + 1,
                     ![t].pc = AfterInsertRaises(threads[t].attempt).pc]
    /\ UNCHANGED <<uploads, store, interpreter>>
    /\ UploadFrame

\* time.sleep(1), then the next iteration of the for loop
thread_sleep(t) ==
    /\ threads[t].pc = "sleep"
    /\ threads' = [threads EXCEPT
                     ![t].attempt = @ + 1,
                     ![t].pc = IF threads[t].attempt + 1 < max_retries
                               THEN "insert" ELSE "respond"]
    /\ UNCHANGED <<uploads, store, interpreter>>
    /\ UploadFrame

\* `return jsonify({'success': True, ...})` inside the try: the value is
\* kept while the finally clause runs
thread_return(t) ==
    /\ threads[t].pc = "respond"
    /\ threads' = [threads EXCEPT ![t].pc = "exists"]
    /\ UNCHANGED <<uploads, store, interpreter>>
    /\ UploadFrame

\* the finally clause is left: the pending exception goes on to the except
\* clause, the pending return value is returned
LeaveFinally(th) ==
    IF th.raising # None THEN [th EXCEPT !.pc = "except"]
    ELSE [th EXCEPT !.pc = "done", !.status = 200]

\* finally: if os.path.exists(file_path):
exists(t) ==
    /\ threads[t].pc = "exists"
    /\ threads' =
         IF file_path(threads[t]) \in DOMAIN uploads
         THEN [threads EXCEPT ![t].pc = "remove"]
         ELSE [threads EXCEPT ![t] = LeaveFinally(@)]
    /\ UNCHANGED <<uploads, store, interpreter>>
    /\ UploadFrame

\* os.remove(file_path): removes the file that is at the path now, and raises
\* FileNotFoundError when there is none; that exception replaces the pending
\* return value or exception
remove(t) ==
    LET p == file_path(threads[t])
    IN  /\ threads[t].pc = "remove"
        /\ IF p \in DOMAIN uploads
           THEN /\ uploads' = RemoveFile(uploads, p)
                /\ threads' = [threads EXCEPT ![t] = LeaveFinally(@)]
           ELSE /\ uploads' = uploads
                /\ threads' = [threads EXCEPT ![t].pc = "except",
                                              ![t].raising = FileNotFoundText]
        /\ UNCHANGED <<store, interpreter>>
        /\ UploadFrame

\* except Exception as e: return jsonify({'success': False, 'error': str(e)}), 500
thread_except(t) ==
    /\ threads[t].pc = "except"
    /\ threads' = [threads EXCEPT ![t].pc = "done", ![t].status = 500,
                                  ![t].error = threads[t].raising]
    /\ UNCHANGED <<uploads, store, interpreter>>
    /\ UploadFrame

NextUploads ==
    \/ \E t \in Threads : save(t)
    \/ \E t \in Threads : load_img(t)
    \/ \E t \in Threads : infer(t)
    \/ \E t \in Threads : thread_insert_returns(t)
    \/ \E t \in Threads : thread_insert_raises(t)
    \/ \E t \in Threads : thread_sleep(t)
    \/ \E t \in Threads : thread_return(t)
    \/ \E t \in Threads : exists(t)
    \/ \E t \in Threads : remove(t)
    \/ \E t \in Threads : thread_except(t)

SpecUploads == InitUploads /\ [][NextUploads]_vars

(***************************************************************************)
(* routes/additional_routes.py: the yield and fertilizer handlers that     *)
(* add_yield_prediction_route and add_fertilizer_recommendation_route      *)
(* register, and the module's own get_fertilizer_advice                    *)
(***************************************************************************)
\* fertilizer_info of additional_routes.py (lines 169-205)
routes_fertilizer_info ==
    [n \in {"Urea", "DAP", "14-35-14", "28-28", "17-17-17", "20-20", "10-26-26"} |->
       CASE n = "Urea" ->
              [description |-> "High nitrogen fertilizer (46% N)",
               usage |-> "Promotes vegetative growth and leaf development",
               application |-> "Apply before planting or during early growth stages"]
         [] n = "DAP" ->
              [description |-> "Diammonium Phosphate (18% N, 46% P)",
               usage |-> "Excellent for root development and early plant growth",
               application |-> "Apply at planting time for best results"]
         [] n = "14-35-14" ->
              [description |-> "Balanced fertilizer with high phosphorus",
               usage |-> "Good for flowering and fruit development",
               application |-> "Apply during flowering stage"]
         [] n = "28-28" ->
              [description |-> "Equal nitrogen and phosphorus",
               usage |-> "Balanced nutrition for overall plant health",
               application |-> "Can be used throughout growing season"]
         [] n = "17-17-17" ->
              [description |-> "Complete balanced fertilizer",
               usage |-> "All-purpose nutrition for healthy growth",
               application |-> "Suitable for most crops and growth stages"]
         [] n = "20-20" ->
              [description |-> "High nitrogen-phosphorus blend",
               usage |-> "Promotes both vegetative and root growth",
               application |-> "Best for early to mid-season application"]
         [] n = "10-26-26" ->
              [description |-> "Low nitrogen, high phosphorus and potassium",
               usage |-> "Excellent for fruit and flower development",
               application |-> "Apply during reproductive stages"]]

\* fertilizer_info.get(fertilizer, {...}) (lines 207-211)
routes_base_info(fertilizer) ==
    IF fertilizer \in DOMAIN routes_fertilizer_info
    THEN routes_fertilizer_info[fertilizer]
    ELSE [description |-> fertilizer \o " fertilizer",
          usage |-> "Follow manufacturer guidelines",
          application |-> "Apply according to crop requirements"]

\* mutant: the low nitrogen tier is tested with <=
routes_soil_analysis_inclusive(nitrogen, phosphorous, potassium) ==
    << IF nitrogen <= 20
       THEN "Low nitrogen detected - this fertilizer will help boost leaf growth"
       ELSE IF nitrogen > 50
       THEN "High nitrogen levels - monitor to prevent excessive vegetative growth"
       ELSE "Nitrogen levels are adequate",
       IF phosphorous < 15
       THEN "Low phosphorus - will improve root development and flowering"
       ELSE IF phosphorous > 40
       THEN "Good phosphorus levels - maintain current status"
       ELSE "Moderate phosphorus levels",
       IF potassium < 20
       THEN "Low potassium - will enhance disease resistance and fruit quality"
       ELSE IF potassium > 50 THEN "Excellent potassium levels"
       ELSE "Moderate potassium levels" >>

\* the three if/elif/else statements of lines 225-244
routes_soil_analysis(nitrogen, phosphorous, potassium) ==
    << IF nitrogen < 20
       THEN "Low nitrogen detected - this fertilizer will help boost leaf growth"
       ELSE IF nitrogen > 50
       THEN "High nitrogen levels - monitor to prevent excessive vegetative growth"
       ELSE "Nitrogen levels are adequate",
       IF phosphorous < 15
       THEN "Low phosphorus - will improve root development and flowering"
       ELSE IF phosphorous > 40
       THEN "Good phosphorus levels - maintain current status"
       ELSE "Moderate phosphorus levels",
       IF potassium < 20
       THEN "Low potassium - will enhance disease resistance and fruit quality"
       ELSE IF potassium > 50 THEN "Excellent potassium levels"
       ELSE "Moderate potassium levels" >>

\* get_fertilizer_advice of additional_routes.py, with the same conventions
\* as for the function of app.py: the lines of the advisory, without their
\* pictographs, bullets and closing temperature and humidity line
routes_get_fertilizer_advice(fertilizer, input_data) ==
    [raised |-> FALSE,
     advice |->
       << "Recommended Fertilizer: " \o fertilizer,
          "Description: " \o routes_base_info(fertilizer).description,
          "Usage: " \o routes_base_info(fertilizer).usage,
          "Application: " \o routes_base_info(fertilizer).application,
          "Soil Analysis Recommendations:" >>
       \o routes_soil_analysis(input_data.Nitrogen, input_data.Phosphorous,
                               input_data.Potassium)
       \o << "Crop: " \o input_data.Crop \o " | Soil: " \o input_data.Soil >>]

\* required_fields of the two handlers, in declared order (lines 20, 93)
routes_required_fields ==
    [yield |-> <<"Year", "average_rain_fall_mm_per_year", "pesticides_tonnes",
                 "avg_temp", "Area", "Item">>,
     fertilizer |-> <<"Temparature", "Humidity ", "Moisture", "Soil Type",
                      "Crop Type", "Nitrogen", "Potassium", "Phosphorous">>]

\* the fields each handler passes to int() or float(), in evaluation order;
\* here 'Area' is passed to float() (line 33)
routes_cast_fields ==
    [yield |-> <<"Year", "average_rain_fall_mm_per_year", "pesticides_tonnes",
                 "avg_temp", "Area">>,
     fertilizer |-> <<"Temparature", "Humidity ", "Moisture", "Nitrogen",
                      "Potassium", "Phosphorous">>]

\* the table each of the two handlers inserts into (lines 49, 126)
RoutesInsertTable ==
    [yield |-> "crop_yield_predictions",
     fertilizer |-> "fertilizer_recommendations"]

routes_FirstMissing(ep, data) ==
    LET q == routes_required_fields[ep]
        absent == {i \in 1..Len(q) : q[i] \notin data.present}
    IN  IF absent = {} THEN None ELSE q[Min(absent)]

routes_FirstGarbled(ep, data) ==
    LET q == routes_cast_fields[ep]
        bad == {i \in 1..Len(q) : q[i] \in data.garbled}
    IN  IF bad = {} THEN None ELSE q[Min(bad)]

\* predict_crop_yield of additional_routes.py up to its persistence block
routes_predict_crop_yield_body(m, data, out) ==
    LET missing == routes_FirstMissing("yield", data)
        garbled == routes_FirstGarbled("yield", data)
    IN  IF missing # None
        THEN Return(Error(400, "Missing field: " \o missing), FALSE, NoOutput)
        ELSE IF "yield_model" \notin m
        THEN Return(Error(500, "Crop yield model not available"), FALSE, NoOutput)
        ELSE IF garbled # None
        THEN Raised(IF garbled = "Year" THEN IntErrorText ELSE FloatErrorText,
                    FALSE, NoOutput)
        ELSE IF "yield_preprocessor" \notin m
        THEN Raised(KeyErrorText("yield_preprocessor"), FALSE, NoOutput)
        ELSE IF out.fault \in {"transform", "predict"}
        THEN Raised(FaultText[out.fault], TRUE, NoOutput)
        ELSE Predicted([label |-> None, confidence |-> 0, value |-> out.value], out)

\* the advisory computed before the persistence block is kept with the result
WithAdvice(step, advice) ==
    IF step.kind = "predicted"
    THEN [step EXCEPT !.result = [advice |-> advice] @@ step.result]
    ELSE step

\* recommend_fertilizer of additional_routes.py up to its persistence block
routes_recommend_fertilizer_body(m, data, out) ==
    LET missing == routes_FirstMissing("fertilizer", data)
        garbled == routes_FirstGarbled("fertilizer", data)
    IN  IF missing # None
        THEN Return(Error(400, "Missing field: " \o missing), FALSE, NoOutput)
        ELSE IF "fertilizer_model" \notin m
        THEN Return(Error(500, "Fertilizer model not available"), FALSE, NoOutput)
        ELSE IF garbled # None THEN Raised(FloatErrorText, FALSE, NoOutput)
        ELSE IF out.fault = "predict"
        THEN Raised(FaultText.predict, TRUE, NoOutput)
        ELSE WithAdvice(
               Predicted([label |-> out.label, confidence |-> out.confidence,
                          value |-> 0], out),
               routes_get_fertilizer_advice(out.label, data.values).advice)

\* The success payloads of the two handlers, with the conventions of
\* SuccessBody; the entry 'advice' of the fertilizer payload is the advisory
\* kept with the result
routes_SuccessBody(ep, res) ==
    CASE ep = "yield" ->
           [success |-> TRUE, predicted_yield |-> res.value]
      [] ep = "fertilizer" ->
           [success |-> TRUE, recommended_fertilizer |-> res.label,
            confidence |-> res.confidence]

(***************************************************************************)
(* Specification of the handlers of additional_routes.py                   *)
(*                                                                         *)
(* A yield request is served by the handler of additional_routes.py.  A    *)
(* fertilizer request is served by recommend_fertilizer of app.py and then *)
(* the same body, with the same registry and the same behaviour of the     *)
(* model, is served by the handler of additional_routes.py; the store      *)
(* behaves as it likes in each of the two.                                 *)
(***************************************************************************)
\* nutrient values in each tier of the soil analysis, and on a threshold
SoilNutrients == {14, 20, 51}

\* what get_fertilizer_advice reads from the body
SoilValues ==
    [Nitrogen : SoilNutrients, Phosphorous : SoilNutrients,
     Potassium : SoilNutrients, Crop : {"Maize"}, Soil : {"Loamy"}]

\* bodies of the yield handler of additional_routes.py: 'Area' may be a
\* string float() rejects
RoutesYieldBodies ==
    LET R == Range(routes_required_fields.yield)
        C == Range(routes_cast_fields.yield)
    IN  UNION {
          { [endpoint |-> "yield", present |-> P, garbled |-> G, user_id |-> u] :
              G \in {{}} \cup {{f} : f \in P \cap C}, u \in UserIds }
          : P \in {Q \in SUBSET R : Cardinality(R \ Q) <= MaxMissing} }

\* bodies of the fertilizer handlers with the values the advisory depends
\* on; a body that does not reach the advisory carries one value
FertilizerBodies ==
    UNION {
      { [values |-> v] @@ data :
          v \in IF FirstMissing("fertilizer", data) = None /\ data.garbled = {}
                THEN SoilValues
                ELSE {[Nitrogen |-> 20, Phosphorous |-> 20, Potassium |-> 20,
                       Crop |-> "Maize", Soil |-> "Loamy"]} }
      : data \in JsonBodies("fertilizer") }

InitRoutes ==
    /\ models \in LoadableRegistries
    /\ supabase \in BOOLEAN
    /\ uploads = {}
    /\ arg = NotCalled
    /\ ret = NotCalled
    /\ store = EmptyStore
    /\ threads = <<>>
    /\ interpreter = FreshInterpreter
    /\ crop_model = <<>>
    /\ answered = <<>>
    /\ Idle

\* Control after the code before the persistence block of a handler of
\* additional_routes.py
RoutesBegin(data, step) ==
    /\ req' = data
    /\ result' = step.result
    /\ invoked' = step.invoked
    /\ output' = step.out
    /\ exc' = step.exc
    /\ resp' = step.resp
    /\ attempt' = 0
    /\ outcomes' = <<>>
    /\ sleeps' = 0
    /\ written' = <<>>
    /\ pc' = CASE step.kind = "return" -> "done"
               [] step.kind = "raise" -> "routes_except"
               [] step.kind = "predicted" ->
                    IF ShouldPersist(supabase, data.user_id)
                    THEN "routes_insert" ELSE "routes_respond"
    /\ UNCHANGED <<models, supabase, uploads, arg, ret, store, threads,
                   interpreter, crop_model>>

routes_predict_crop_yield ==
    /\ pc = "idle"
    /\ \E data \in RoutesYieldBodies :
       \E out \in Runs("yield", routes_FirstMissing("yield", data) = None,
                       YieldOutputs) :
        RoutesBegin([handler |-> "routes", run |-> out] @@ data,
                    routes_predict_crop_yield_body(models, data, out))
    /\ UNCHANGED answered

\* recommend_fertilizer of app.py for a body with its soil values: the
\* advisory of line 503 is kept with the result
recommend_fertilizer_values ==
    /\ pc = "idle"
    /\ \E data \in FertilizerBodies :
       \E out \in Runs("fertilizer", FirstMissing("fertilizer", data) = None,
                       FertilizerOutputs) :
        LET step == recommend_fertilizer_body(models, data, out)
        IN  Begin([handler |-> "app", run |-> out] @@ data,
                  IF step.kind = "predicted"
                  THEN WithAdvice(step,
                         get_fertilizer_advice(out.label, data.values).advice)
                  ELSE step)
    /\ UNCHANGED uploads

\* the body app.py has answered is sent to the handler of additional_routes.py
routes_recommend_fertilizer ==
    /\ pc = "done"
    /\ req.endpoint = "fertilizer"
    /\ req.handler = "app"
    /\ answered' = <<[resp |-> resp, result |-> result, outcomes |-> outcomes]>>
    /\ RoutesBegin([req EXCEPT !.handler = "routes"],
                   routes_recommend_fertilizer_body(models, req, req.run))

\* except Exception as e: print(...): control falls through to the return
RoutesAfterInsertRaises(a) == [pc |-> "routes_respond", attempt |-> a]

\* the insert(...).execute() of lines 49-59 and 126-140 returns
RoutesInsertReturns ==
    /\ pc = "routes_insert"
    /\ outcomes' = Append(outcomes, "ok")
    /\ written' = Append(written, <<RoutesInsertTable[req.endpoint], req.user_id>>)
    /\ store' = Insert(store, RoutesInsertTable[req.endpoint], req.user_id)
    /\ pc' = "routes_respond"
    /\ UNCHANGED <<models, supabase, req, result, attempt, sleeps, uploads,
                   invoked, output, exc, resp, arg, ret, threads, interpreter,
                   crop_model, answered>>

\* the insert(...).execute() raises: the exception is printed and dropped
RoutesInsertRaises ==
    /\ pc = "routes_insert"
    /\ outcomes' = Append(outcomes, "raise")
    /\ pc' = RoutesAfterInsertRaises(attempt).pc
    /\ attempt' = RoutesAfterInsertRaises(attempt).attempt
    /\ UNCHANGED <<models, supabase, req, result, sleeps, written, uploads,
                   invoked, output, exc, resp, arg, ret, store, threads,
                   interpreter, crop_model, answered>>

\* return jsonify({'success': True, ...}) (lines 64-77, 145-162)
RoutesRespond ==
    /\ pc = "routes_respond"
    /\ resp' = Response(200, routes_SuccessBody(req.endpoint, result))
    /\ pc' = "done"
    /\ UNCHANGED <<models, supabase, req, result, attempt, outcomes, sleeps,
                   written, uploads, invoked, output, exc, arg, ret, store,
                   threads, interpreter, crop_model, answered>>

\* except Exception as e: return jsonify({'success': False, 'error': str(e)}), 500
RoutesExcept ==
    /\ pc = "routes_except"
    /\ resp' = Error(500, exc)
    /\ pc' = "done"
    /\ UNCHANGED <<models, supabase, req, result, attempt, outcomes, sleeps,
                   written, uploads, invoked, output, exc, arg, ret, store,
                   threads, interpreter, crop_model, answered>>

NextRoutes ==
    \/ routes_predict_crop_yield
    \/ recommend_fertilizer_values
    \/ InsertReturns
    \/ InsertRaises
    \/ Sleep
    \/ Respond
    \/ Except
    \/ routes_recommend_fertilizer
    \/ RoutesInsertReturns
    \/ RoutesInsertRaises
    \/ RoutesRespond
    \/ RoutesExcept

SpecRoutes == InitRoutes /\ [][NextRoutes]_vars

(***************************************************************************)
(* Properties                                                              *)
(***************************************************************************)
Served == pc # "idle"
OkResponse == Response(200, SuccessBody(req.endpoint, result))
Attempts == Len(outcomes)
Failures(n) == Cardinality({i \in 1..Attempts : i <= n /\ outcomes[i] = "raise"})

\* the handles each handler reads from the registry
HandlerKeys ==
    [crop |-> {"crop_model", "crop_minmax", "crop_scaler"},
     disease |-> {"disease_interpreter", "disease_input_details",
                  "disease_output_details"},
     yield |-> {"yield_model", "yield_preprocessor"},
     fertilizer |-> {"fertilizer_model"}]

\* a request that passes validation and coercion
ValidRequest ==
    /\ Served
    /\ req.endpoint \in DOMAIN HandlerKeys
    /\ IF req.endpoint = "disease"
       THEN req.has_file /\ req.filename # ""
       ELSE /\ Range(required_fields[req.endpoint]) \subseteq req.present
            /\ req.garbled = {}

\* C1: a JSON prediction request whose body lacks a required field is answered
\* at once with 400 and "Missing field: <name>", <name> being the first absent
\* field in declared order, for every registry, and no model is invoked.
C1_MissingFieldIs400 ==
    (Served /\ req.endpoint \in JsonEndpoints
       /\ Range(required_fields[req.endpoint]) \ req.present # {}) =>
        LET q == required_fields[req.endpoint]
        IN  /\ pc = "done"
            /\ ~invoked
            /\ output = NoOutput
            /\ Attempts = 0
            /\ \E i \in 1..Len(q) :
                 /\ q[i] \notin req.present
                 /\ \A j \in 1..(i - 1) : q[j] \in req.present
                 /\ resp = [status |-> 400,
                            body |-> [success |-> FALSE,
                                      error |-> "Missing field: " \o q[i]]]

\* C1 witness: the fertilizer model is loaded, two fields are absent and the
\* 400 names the earlier one
C1_Witness ==
    /\ pc = "done"
    /\ req.endpoint = "fertilizer"
    /\ "fertilizer_model" \in models
    /\ Range(required_fields.fertilizer) \ req.present = {"Moisture", "Nitrogen"}
    /\ resp.status = 400
    /\ resp.body.error = "Missing field: Moisture"

\* C2: the response of a prediction request does not depend on the outcomes
\* of its store writes: whenever the handler got past the model (with the
\* write succeeding at once, after 1 or 2 failures, failing 3 times, or
\* skipped) the answer is the 200 success payload of the prediction made
\* before the first write.
C2_ResponseIgnoresStore ==
    /\ (pc \in {"insert", "sleep", "respond"}) => resp = [status |-> 0]
    /\ (pc = "done" /\ (Attempts > 0 \/ result # NoResult))
          => (resp = OkResponse /\ resp.status = 200 /\ resp.body.success)

\* C2 witness: three consecutive failed writes and a 200 success response
C2_Witness ==
    /\ pc = "done"
    /\ outcomes = <<"raise", "raise", "raise">>
    /\ req.endpoint = "fertilizer"
    /\ resp.status = 200
    /\ resp.body.recommended_fertilizer = result.label

\* C3: a request writes at most one row, and no insert attempt follows an
\* attempt that returned.
C3_AtMostOneRecord ==
    /\ Len(written) <= 1
    /\ \A i \in 1..(Attempts - 1) : outcomes[i] = "raise"
    /\ Len(written) = Cardinality({i \in 1..Attempts : outcomes[i] = "ok"})
    /\ (pc \in {"insert", "sleep"}) => written = <<>>

\* C3 witness: the second attempt wrote the row and the loop stopped
C3_Witness ==
    /\ pc = "done"
    /\ outcomes = <<"raise", "ok">>
    /\ written = <<<<"yield_predictions", "u1">>>>

\* C4: an insert is attempted only with a store connection and a user
\* identifier; without either there is no attempt and no sleep, and the
\* prediction is answered with its success payload.
C4_PersistOnlyWithStoreAndUser ==
    /\ (Attempts > 0 \/ pc \in {"insert", "sleep"} \/ sleeps > 0 \/ written # <<>>)
          => (supabase /\ req.user_id # None)
    /\ (Served /\ (~supabase \/ req.user_id = None)) =>
          /\ Attempts = 0 /\ sleeps = 0 /\ written = <<>>
          /\ pc \notin {"insert", "sleep"}
          /\ (pc = "done" /\ result # NoResult) => resp = OkResponse

\* C4 witness: a store is configured, the request carries no user_id, and the
\* disease prediction is answered without any write
C4_Witness ==
    /\ pc = "done"
    /\ supabase
    /\ req.endpoint = "disease"
    /\ req.user_id = None
    /\ resp.status = 200
    /\ resp.body.success
    /\ Attempts = 0

\* C5: the persistence loop makes attempts 1..3, sleeps once after a failed
\* attempt 1 or 2, stops at the first success, and after the 3rd failure
\* neither sleeps nor tries again.
C5_RetryPolicy ==
    /\ Attempts <= 3
    /\ (pc = "insert") => (attempt = Attempts /\ sleeps = Attempts)
    /\ (pc = "sleep") => (Attempts \in 1..2 /\ outcomes[Attempts] = "raise"
                          /\ sleeps = Attempts - 1)
    /\ (pc \in {"respond", "done"} /\ Served /\ result # NoResult
          /\ ShouldPersist(supabase, req.user_id)) =>
          /\ Attempts \in 1..3
          /\ (outcomes[Attempts] = "ok" \/ Attempts = 3)
    /\ (pc \in {"insert", "respond", "done"}) => sleeps = Failures(2)
    /\ \A i \in 1..(Attempts - 1) : outcomes[i] = "raise"

\* C5 witness: three failures, two sleeps, the record is dropped
C5_Witness ==
    /\ pc = "done"
    /\ req.endpoint = "crop"
    /\ outcomes = <<"raise", "raise", "raise">>
    /\ sleeps = 2
    /\ written = <<>>

\* C6: for every registry load_models can leave and every valid request, an
\* endpoint whose handles are not all loaded answers 500 with its fixed
\* "model not available" message.
C6_UnavailableModelIsFixed500 ==
    (pc = "done" /\ ValidRequest
       /\ ~(HandlerKeys[req.endpoint] \subseteq models))
      => resp = Error(500, NotAvailable[req.endpoint])

\* C7: load_models never raises, and every capability whose artifacts exist
\* and load is in the registry afterwards, whatever happened to the others.
C7_LoadFailureIsolated ==
    ret.called =>
        /\ ~ret.value.escaped
        /\ (\A f \in {"crop_recommendation", "crop_scaler", "crop_minmax"} :
               arg[f] = "good") => HandlerKeys.crop \subseteq models
        /\ (arg["disease_detection"] = "good")
               => HandlerKeys.disease \subseteq models
        /\ (\A f \in {"crop_yield", "crop_yield_preprocessor"} :
               arg[f] = "good") => HandlerKeys.yield \subseteq models
        /\ (arg["fertilizer"] = "good") => HandlerKeys.fertilizer \subseteq models

\* C8: crop recommendation answers class index i in 1..22 with 200,
\* success:true and recommended_crop = CROP_DICT[i] (1 Rice, 22 Coffee), and
\* any other index with 200, success:false, a message and no recommended_crop.
C8_CropIndexMapping ==
    (pc = "done" /\ req.endpoint = "crop" /\ output # NoOutput) =>
        /\ resp.status = 200
        /\ IF output.index \in 1..22
           THEN /\ resp.body.success
                /\ resp.body.recommended_crop = CropNames[output.index]
                /\ output.index = 1 => resp.body.recommended_crop = "Rice"
                /\ output.index = 22 => resp.body.recommended_crop = "Coffee"
           ELSE /\ ~resp.body.success
                /\ "recommended_crop" \notin DOMAIN resp.body
                /\ resp.body.message
                     = "Could not determine the best crop with the provided data."
                /\ Attempts = 0

\* C8 witness: index 23 is answered with the 200 soft failure
C8_Witness ==
    /\ pc = "done"
    /\ req.endpoint = "crop"
    /\ output # NoOutput
    /\ output.index = 23
    /\ resp.status = 200
    /\ ~resp.body.success

\* C9: disease detection answers class 0, 1, 2 with Healthy, Powdery, Rust and
\* any other class index with a 200 response carrying success:false.
C9_DiseaseIndexMapping ==
    (pc = "done" /\ req.endpoint = "disease" /\ output # NoOutput) =>
        /\ resp.status = 200
        /\ IF output.index \in 0..2
           THEN /\ resp.body.success
                /\ resp.body.disease
                     = <<"Healthy", "Powdery", "Rust">>[output.index + 1]
           ELSE ~resp.body.success

\* C10: get_severity_level is total: Healthy gives Good; otherwise a
\* confidence above 0.8 gives High for Powdery and Rust and Medium for other
\* labels, a confidence above 0.6 gives Medium, anything else Low; exactly
\* 0.8 gives Medium and exactly 0.6 gives Low.
C10_SeverityTable ==
    ret.called =>
        LET c == arg.confidence
            d == arg.disease
            v == ret.value
        IN  /\ v \in {"Good", "High", "Medium", "Low"}
            /\ (d = "Healthy") => v = "Good"
            /\ (d \in {"Powdery", "Rust"} /\ c > 8) => v = "High"
            /\ (d \notin {"Healthy", "Powdery", "Rust"} /\ c > 8) => v = "Medium"
            /\ (d # "Healthy" /\ c > 6 /\ c <= 8) => v = "Medium"
            /\ (d # "Healthy" /\ c <= 6) => v = "Low"

\* C10 witness: Rust at exactly 0.8 is Medium
C10_Witness ==
    /\ ret.called
    /\ arg.disease = "Rust"
    /\ arg.confidence = 8
    /\ ret.value = "Medium"

\* the lines of an advisory that are sentences of the given table
TierLines(advice, table) ==
    {i \in 1..Len(advice) : \E k \in DOMAIN table : advice[i] = table[k]}

\* C11: for every nutrient triple, the advisory of get_fertilizer_advice has
\* exactly one sentence per nutrient, chosen by that nutrient's value alone:
\* nitrogen below 20 low, 20..50 adequate, above 50 high; phosphorous below 15
\* low, 15..40 moderate, above 40 good; potassium below 20 low, 20..50
\* moderate, above 50 excellent; whatever the other nutrients and the label.
C11_NutrientTiers ==
    (ret.called /\ arg.fn = "get_fertilizer_advice") =>
        LET a == ret.value.advice
            n == arg.input_data.Nitrogen
            p == arg.input_data.Phosphorous
            k == arg.input_data.Potassium
        IN  /\ ~ret.value.raised
            /\ \E i \in 1..Len(a) :
                 /\ TierLines(a, NitrogenSentences) = {i}
                 /\ a[i] = IF n < 20 THEN NitrogenSentences.low
                           ELSE IF n <= 50 THEN NitrogenSentences.adequate
                           ELSE NitrogenSentences.high
            /\ \E i \in 1..Len(a) :
                 /\ TierLines(a, PhosphorousSentences) = {i}
                 /\ a[i] = IF p < 15 THEN PhosphorousSentences.low
                           ELSE IF p <= 40 THEN PhosphorousSentences.moderate
                           ELSE PhosphorousSentences.good
            /\ \E i \in 1..Len(a) :
                 /\ TierLines(a, PotassiumSentences) = {i}
                 /\ a[i] = IF k < 20 THEN PotassiumSentences.low
                           ELSE IF k <= 50 THEN PotassiumSentences.moderate
                           ELSE PotassiumSentences.excellent

\* C11 witness: every nutrient sits exactly on a threshold (20, 40, 50) of an
\* unknown label and gets the middle tier
C11_Witness ==
    /\ ret.called
    /\ arg.fn = "get_fertilizer_advice"
    /\ arg.fertilizer = "Compost"
    /\ arg.input_data.Nitrogen = 20
    /\ arg.input_data.Phosphorous = 40
    /\ arg.input_data.Potassium = 50
    /\ ret.value.advice[6] = "Nitrogen levels are adequate"
    /\ ret.value.advice[7] = "Moderate phosphorus levels"
    /\ ret.value.advice[8] = "Moderate potassium levels"

\* C12: with a store configured, for every subset of the four history queries
\* that raise, the history response is 200 with success:true, a failed
\* category is the empty list, every other category has the rows of the user
\* in its table, and total_records is the sum of the lengths.
C12_HistoryToleratesFailures ==
    (pc = "done" /\ req.endpoint = "history" /\ supabase) =>
        /\ resp.status = 200
        /\ resp.body.success
        /\ DOMAIN resp.body.history = Range(HistoryCategories)
        /\ \A c \in Range(HistoryCategories) :
             LET rows == resp.body.history[c]
                 mine == {i \in 1..Len(store[c]) : store[c][i][2] = req.user_id}
             IN  IF c \in req.failing THEN rows = <<>>
                 ELSE /\ Len(rows) = Min({Cardinality(mine), 10})
                      /\ \A i \in 1..Len(rows) : rows[i] = <<c, req.user_id>>
        /\ \E n \in [Range(HistoryCategories) -> 0..10] :
             /\ \A c \in Range(HistoryCategories) : n[c] = Len(resp.body.history[c])
             /\ resp.body.total_records
                  = n["crop_recommendations"] + n["disease_detections"]
                    + n["fertilizer_recommendations"] + n["crop_yield_predictions"]

\* C12 witness: the crop query raises although the user has a crop row, the
\* disease query raises too, and the answer is 200 with no records
C12_Witness ==
    /\ pc = "done"
    /\ req.endpoint = "history"
    /\ supabase
    /\ req.user_id = "u1"
    /\ req.failing = {"crop_recommendations", "disease_detections"}
    /\ store["crop_recommendations"] = <<<<"crop_recommendations", "u1">>>>
    /\ resp.status = 200
    /\ resp.body.history["crop_recommendations"] = <<>>
    /\ resp.body.total_records = 0

\* the key of the history response that reports each kind of prediction
KindCategory ==
    [crop |-> "crop_recommendations", disease |-> "disease_detections",
     fertilizer |-> "fertilizer_recommendations",
     yield |-> "crop_yield_predictions"]

\* the rows in the store that the handler of kind k wrote for the user
RowsWrittenBy(k, user_id) ==
    UNION {{<<t, i>> : i \in {j \in 1..Len(store[t]) :
                                store[t][j] = <<InsertTable[k], user_id>>}}
           : t \in Tables}

\* C13: for each of the four kinds of prediction, the rows a handler wrote
\* for user u are returned in that kind's category of the history of u, when
\* that category's query succeeds and the rows are among the 10 most recent.
C13_HistoryReadsBackWrites ==
    (pc = "done" /\ req.endpoint = "history" /\ supabase) =>
        \A k \in DOMAIN KindCategory :
            (KindCategory[k] \notin req.failing
               /\ Cardinality(RowsWrittenBy(k, req.user_id)) <= 10)
              => Len(resp.body.history[KindCategory[k]])
                   = Cardinality(RowsWrittenBy(k, req.user_id))

\* C14: a disease request that wrote its upload leaves no file behind on any
\* exit path: success, an exception while saving, loading or invoking, a
\* label lookup failure, persistence failures.
C14_UploadRemoved ==
    /\ (pc = "done" /\ req.endpoint = "disease") => UploadPath(req) \notin uploads
    /\ (pc = "idle") => uploads = {}

\* C15: for any interleaving of concurrent disease requests, the class and
\* the confidence a request reports are the model's output for its own image.
C15_InterpreterNotShared ==
    \A t \in DOMAIN threads :
        (threads[t].pc = "done") =>
            /\ threads[t].predicted_class = threads[t].x.index
            /\ threads[t].confidence = threads[t].x.confidence

\* the registry key each JSON handler tests before it answers
\* "model not available"
AvailabilityKey ==
    [crop |-> "crop_model", yield |-> "yield_model",
     fertilizer |-> "fertilizer_model"]

\* C16: every JSON handler validates, then coerces, then checks availability:
\* a crop, yield or fertilizer request with every required field, one value
\* whose cast fails and the model absent is answered 500 with the cast
\* error's text, not with the "model not available" message.
C16_CoerceBeforeAvailability ==
    (pc = "done" /\ req.endpoint \in JsonEndpoints
       /\ Range(required_fields[req.endpoint]) \subseteq req.present
       /\ req.garbled # {}
       /\ AvailabilityKey[req.endpoint] \notin models) =>
        /\ resp.status = 500
        /\ resp.body.error \in {FloatErrorText, IntErrorText}
        /\ resp.body.error # NotAvailable[req.endpoint]

\* what C17 asks of every state
StructuredResponse ==
    /\ (pc \notin {"idle", "done"}) => resp = [status |-> 0]
    /\ (pc \in {"finally", "except"}) => exc # None
    /\ (pc = "done" /\ req.endpoint \in DOMAIN HandlerKeys) =>
          /\ resp.status \in {200, 400, 500}
          /\ "success" \in DOMAIN resp.body
          /\ resp.body.success \in BOOLEAN
          /\ (~resp.body.success) =>
                ("error" \in DOMAIN resp.body \/ "message" \in DOMAIN resp.body)
          /\ (result = NoResult /\ exc # None) =>
                resp = [status |-> 500,
                        body |-> [success |-> FALSE, error |-> exc]]

\* C17: every request to a prediction handler ends in exactly one structured
\* response: an exception raised after validation (coercion, transformation,
\* model invocation, label lookup) is answered 500 with success:false and the
\* exception's text, no request ends without a body, and nothing follows the
\* response.
C17_OneStructuredResponse ==
    /\ []StructuredResponse
    /\ [][(pc = "done") => (pc' = "idle")]_vars

\* C17 witness: the crop model raises inside predict and the request is
\* answered 500 with that exception's text
C17_Witness ==
    /\ pc = "done"
    /\ req.endpoint = "crop"
    /\ invoked
    /\ exc = FaultText.predict
    /\ resp = Error(500, FaultText.predict)

\* C18: two crop requests with identical inputs against the same registry get
\* the same recommended_crop and confidence (the same response), whatever the
\* earlier requests left behind and whatever the store did.
C18_CropDeterministic ==
    /\ \A i, j \in 1..Len(answered) :
          (answered[i][1] = answered[j][1]) => answered[i][2] = answered[j][2]
    /\ (pc = "done") =>
          \A i \in 1..Len(answered) :
              (answered[i][1] = req.features) => answered[i][2] = resp

\* C18 witness: the first request wrote its row, the second one, with the
\* same values, lost all three writes, and both got the same recommendation
C18_Witness ==
    /\ pc = "done"
    /\ Len(answered) = 1
    /\ answered[1][1] = req.features
    /\ store["crop_recommendations"] # <<>>
    /\ outcomes = <<"raise", "raise", "raise">>
    /\ resp.status = 200
    /\ resp.body.success
    /\ answered[1][2].body.recommended_crop = resp.body.recommended_crop
    /\ answered[1][2].body.confidence = resp.body.confidence

\* the label each endpoint reports for the class in column i of the vector
ClassLabel(ep, i) ==
    CASE ep = "crop" -> CropNames[i]
      [] ep = "disease" -> <<"Healthy", "Powdery", "Rust">>[i]
      [] ep = "fertilizer" -> <<"10-26-26", "14-35-14", "DAP">>[i]

C20_AdvisoryLookupTotal ==
    ret.called =>
        IF arg.fn = "get_treatment_advice"
        THEN /\ DOMAIN ret.value = {"advice", "products", "prevention"}
             /\ IF arg.disease \in {"Healthy", "Powdery", "Rust"}
                THEN ret.value = treatments[arg.disease]
                ELSE /\ ret.value.advice
                          = "Disease detected. Consult with agricultural extension services for proper diagnosis and treatment."
                     /\ ret.value.products = <<>>
                     /\ ret.value.prevention
                          = <<"Maintain good plant hygiene", "Monitor plants regularly">>
        ELSE /\ ~ret.value.raised
             /\ ret.value.advice[1] = "Recommended Fertilizer: " \o arg.fertilizer
             /\ IF arg.fertilizer \in {"Urea", "DAP", "14-35-14", "28-28",
                                       "17-17-17", "20-20", "10-26-26"}
                THEN /\ ret.value.advice[2]
                          = "Description: " \o fertilizer_info[arg.fertilizer].description
                     /\ ret.value.advice[3]
                          = "Usage: " \o fertilizer_info[arg.fertilizer].usage
                     /\ ret.value.advice[4]
                          = "Application: " \o fertilizer_info[arg.fertilizer].application
                ELSE /\ ret.value.advice[2]
                          = "Description: " \o arg.fertilizer \o " fertilizer"
                     /\ ret.value.advice[3] = "Usage: Follow manufacturer guidelines"
                     /\ ret.value.advice[4]
                          = "Application: Apply according to crop requirements"

\* C20 witness: a fertilizer name outside the table gets the generic advisory
C20_Witness ==
    /\ ret.called
    /\ arg.fn = "get_fertilizer_advice"
    /\ arg.fertilizer = "Compost"
    /\ ret.value.advice[2] = "Description: Compost fertilizer"
    /\ ret.value.advice[3] = "Usage: Follow manufacturer guidelines"


\* C21: in crop recommendation the array handed to the first transformer is
\* [nitrogen, phosphorus, potassium, temperature, humidity, ph, rainfall] in
\* that order; the calls are, in order, crop_minmax.transform on that array,
\* crop_scaler.transform on the min-max output, then crop_model.predict and
\* crop_model.predict_proba, both on the output of the second transform.
C21_PipelineOrder ==
    LET X0 == [array |-> <<float(arg["nitrogen"]), float(arg["phosphorus"]),
                           float(arg["potassium"]), float(arg["temperature"]),
                           float(arg["humidity"]), float(arg["ph"]),
                           float(arg["rainfall"])>>]
        X1 == [object |-> "crop_minmax", method |-> "transform", argument |-> X0]
        X2 == [object |-> "crop_scaler", method |-> "transform", argument |-> X1]
        expected ==
            <<X1, X2,
              [object |-> "crop_model", method |-> "predict", argument |-> X2],
              [object |-> "crop_model", method |-> "predict_proba",
               argument |-> X2]>>
    IN  /\ ret.line # 176 => ret.single_pred = X0
        /\ Len(ret.calls) <= Len(expected)
        /\ \A i \in 1..Len(ret.calls) : ret.calls[i] = expected[i]
        /\ \A i \in 1..Len(ret.calls) :
              ret.calls[i].object = "crop_model" => ret.calls[i].argument = X2
        /\ ret.line = 188 => ret.calls = expected

\* a request whose seven values tell the positions apart went through both
\* transforms and both model calls
C21_Witness ==
    /\ ret.line = 188
    /\ Len(ret.calls) = 4
    /\ arg["nitrogen"] = "0.5" /\ arg["phosphorus"] = "2"
    /\ arg["potassium"] = "0.5" /\ arg["temperature"] = "2"
    /\ arg["humidity"] = "0.5" /\ arg["ph"] = "2" /\ arg["rainfall"] = "0.5"


\* the handler has started and has not yet returned its response
InFlight == pc \in {"insert", "sleep", "respond", "finally", "except"}

\* C22: when every insert call returns or raises, every prediction request
\* that is being handled is eventually answered, after at most 3 insert
\* attempts and at most 2 sleeps; no step of a handler goes back to an
\* earlier attempt.
C22_EventuallyResponds ==
    /\ [](Attempts <= 3 /\ sleeps <= 2 /\ attempt < 3)
    /\ [][InFlight => (attempt' >= attempt /\ Len(outcomes') >= Attempts)]_vars
    /\ (InFlight ~> (pc = "done" /\ resp.status \in {200, 400, 500}))

\* a disease request answered after the store raised on all three attempts
C22_Witness ==
    /\ pc = "done"
    /\ req.endpoint = "disease"
    /\ resp.status = 200
    /\ outcomes = <<"raise", "raise", "raise">>
    /\ sleeps = 2


\* C23: a request for which an insert attempt was made is answered 200 with
\* success:true; a request answered 400, 500 or success:false made no insert
\* attempt.  Stated for disease requests served on concurrent threads.
C23_RecordOnlyForSuccess ==
    \A t \in DOMAIN threads :
        (threads[t].pc = "done" /\ threads[t].inserts > 0) =>
            (threads[t].status = 200 /\ threads[t].error = None)

\* C24: a handler of additional_routes.py that made an insert attempt which
\* failed goes on attempting until an attempt succeeds or 3 have failed, with
\* a sleep between attempts; it answers with the record dropped only after
\* the 3rd consecutive failure.
C24_RoutesRetryPolicy ==
    (pc = "done" /\ req.endpoint \in {"yield", "fertilizer"}
       /\ req.handler = "routes" /\ Attempts > 0
       /\ outcomes[Attempts] = "raise") =>
        (Attempts = 3 /\ sleeps = 2)

\* C25: for every body, registry and behaviour of the store in each of the
\* two, the fertilizer handler of additional_routes.py answers the body with
\* the status and the payload with which the handler of app.py answered it,
\* and with the same advisory.
C25_FertilizerHandlersAgree ==
    (pc = "done" /\ answered # <<>>) =>
        /\ resp = answered[1].resp
        /\ result = answered[1].result

\* both handlers answered 200 with an advisory for low nitrogen; the store
\* took the record of app.py on the third attempt and raised on the only
\* attempt of additional_routes.py
C25_Witness ==
    /\ pc = "done"
    /\ answered # <<>>
    /\ resp.status = 200
    /\ resp.body.recommended_fertilizer = "Urea"
    /\ req.values.Nitrogen = 14
    /\ result.advice[6] =
         "Low nitrogen detected - this fertilizer will help boost leaf growth"
    /\ answered[1].outcomes = <<"raise", "raise", "ok">>
    /\ outcomes = <<"raise">>

\* C26: for any interleaving of concurrent disease requests, a request that
\* has saved its upload and still has to read it finds at its path the image
\* it saved, and the image a request loaded is the image it uploaded.
C26_UploadsIsolated ==
    \A t \in DOMAIN threads :
        /\ (threads[t].pc = "load_img") =>
              /\ file_path(threads[t]) \in DOMAIN uploads
              /\ uploads[file_path(threads[t])] = threads[t].image
        /\ (threads[t].img # NoOutput) => threads[t].img = threads[t].image


\* C27: in every registry load_models can leave, the key a handler checks
\* brings its auxiliary handles with it: 'crop_model' implies 'crop_scaler'
\* and 'crop_minmax', 'yield_model' implies 'yield_preprocessor',
\* 'disease_interpreter' implies 'disease_input_details' and
\* 'disease_output_details'.
C27_RegistryComplete ==
    ret.called =>
        /\ ("crop_model" \in models) =>
              {"crop_scaler", "crop_minmax"} \subseteq models
        /\ ("yield_model" \in models) => "yield_preprocessor" \in models
        /\ ("disease_interpreter" \in models) =>
              {"disease_input_details", "disease_output_details"}
                  \subseteq models

====
